---- MODULE Spec2Model ----
(***************************************************************************)
(* State-machine model of the scan orchestration and result persistence of *)
(* webscreengrabGemini.py: main() (host list, resume filter, thread pool   *)
(* or sequential loop), process_host() (flag checks, two protocol probes,  *)
(* four output appends, progress mark), the output writers, the progress   *)
(* store and the signal handler.                                           *)
(*                                                                         *)
(* A task is one call of process_host; tasks are indexed by their position *)
(* in hosts_to_process.  Files persist across runs of the program; the     *)
(* in-memory state is rebuilt by every run.                                *)
(***************************************************************************)
EXTENDS Integers, Sequences, FiniteSets, Bags, TLC

\* ---- bounds of the model ----
MaxHosts == 2      \* distinct host names that may occur in the input file
MaxLines == 2      \* lines of the input file
MaxRuns == 2       \* runs of the program on the same output directory
MaxFaults == 1     \* I/O failures (exceptions raised by the OS) per behaviour
MaxConcurrent == 2 \* largest value of --concurrent
MaxTasks == 3      \* hosts of the longest work list

Hosts == 1..MaxHosts
\* A line of the input file: a host, Blank (an empty line) or Comment (a line that
\* starts with '#').
Blank == 0
Comment == 0 - 1
Lines == Hosts \cup {Blank}

\* the two scanner scripts
Gemini == "webscreengrabGemini.py"
V5 == "webscreengrab5.py"

VARIABLES
    script,         \* which of the two scanner scripts runs
    network,        \* what the hosts of the input file do when they are probed
    ip_file,        \* the lines of args.ip_file
    args,           \* parsed arguments: concurrent, resume, store_headers, jitter
    running,        \* the global shutdown flag
    main_pc,        \* position of the main thread
    hosts_to_process, \* main's work list
    submitted,      \* number of tasks handed to the executor
    pc,             \* pc[i]: position of task i inside process_host
    https_res,      \* https_res[i]: outcome of test_protocol(.., "https://", ..)
    http_res,       \* http_res[i]: outcome of test_protocol(.., "http://", ..)
    wb,             \* wb[i]: the workbook object task i got from init_excel
    processed_ips,  \* the global in-memory set
    xlsx, xml, csv, json, \* the rows of the four output files, as bags
    backups,        \* the backup workbooks written beside the workbook file
    progress,       \* the lines of the progress file, as a bag
    runs,           \* runs started so far
    faults,         \* I/O failures so far
    start,          \* history: the files and the loaded skip-set at the start of the
                    \* run, whether reading the progress file failed (now, ever)
    disk,           \* disk[f][path]: the XML and the JSON file, byte-level view
    writer,         \* the process that runs init_xml/init_json and the appends
    latest,         \* history: latest[f], the latest append to format f
    arguments,      \* the arguments of a call of a function without side effects
    result,         \* what the call returned
    probe,          \* the locals of a call of test_protocol, and what it sent
    lock,           \* lock[l]: the task that holds the global lock l
    csv_file,       \* the CSV file, line by line
    chrome          \* chrome[i]: the browser that process_host of task i has started

vars == <<script, network, ip_file, args, running, main_pc, hosts_to_process, submitted, pc,
          https_res, http_res, wb, processed_ips, xlsx, backups, xml, csv, json,
          progress, runs, faults, start, disk, writer, latest,
          arguments, result, probe, lock, csv_file, chrome>>

files == <<xlsx, backups, xml, csv, json, progress>>
config == <<script, network, ip_file, args>>
storage == <<disk, writer, latest>>
call == <<arguments, result, probe>>
sink == <<lock, csv_file>>
NoProbe == probe = <<>>
NoCall == arguments = <<>> /\ result = <<>> /\ NoProbe

\* ---- sequences ----
RECURSIVE SeqsUpTo(_, _)
SeqsUpTo(S, n) ==
    IF n = 0 THEN {<<>>}
    ELSE LET shorter == SeqsUpTo(S, n - 1)
         IN shorter \cup {Append(s, x) : s \in {t \in shorter : Len(t) = n - 1}, x \in S}

Range(s) == {s[k] : k \in 1..Len(s)}

Count(s, P(_)) == Cardinality({k \in 1..Len(s) : P(s[k])})

Min(a, b) == IF a <= b THEN a ELSE b
Max(a, b) == IF a >= b THEN a ELSE b

\* ---- main(): reading the host list (lines 1665-1698) ----

\* [line.strip() for line in f if line.strip() and not line.strip().startswith('#')];
\* webscreengrab5.py, line 1075, keeps the lines that start with '#'
read_hosts(f) ==
    SelectSeq(f, LAMBDA l : l # Blank /\ (script = Gemini => l # Comment))

\* unique_hosts without the deduplication: every line is kept
unique_hosts_keep_all(lines) == lines

\* list(dict.fromkeys(lines)): first occurrences, in input order
RECURSIVE unique_hosts(_)
unique_hosts(lines) ==
    IF lines = <<>> THEN <<>>
    ELSE LET front == unique_hosts(SubSeq(lines, 1, Len(lines) - 1))
             last == lines[Len(lines)]
         IN IF last \in Range(front) THEN front ELSE Append(front, last)

\* webscreengrab5.py, line 1076, list(set(lines)): the distinct lines in the order
\* in which the set happens to iterate
list_set(lines) ==
    {s \in SeqsUpTo(Range(lines), Len(lines)) :
        /\ Range(s) = Range(lines)
        /\ Len(s) = Cardinality(Range(lines))}

\* the lists the deduplication may give
deduplicated(lines) ==
    IF script = Gemini THEN {unique_hosts(lines)} ELSE list_set(lines)

\* load_processed_ips that takes every host for completed
load_processed_ips_every_host(progress_file, read_fails) == Hosts

\* load_processed_ips that never finds a completed host
load_processed_ips_nothing(progress_file, read_fails) == {}

\* load_processed_ips, lines 1348-1367: the stripped non-empty lines of the file;
\* the empty set when reading it raises
load_processed_ips(progress_file, read_fails) ==
    IF read_fails THEN {}
    ELSE {l \in BagToSet(progress_file) : l # Blank}

\* the resume filter left out: every unique host is processed
filter_hosts_keep_all(unique, processed) == unique

\* [host for host in unique_hosts if host not in processed_ips]
filter_hosts(unique, processed) == SelectSeq(unique, LAMBDA h : h \notin processed)

\* a pool with a thread for every host
num_workers_per_host == Max(1, Len(hosts_to_process))

\* max(1, min(args.concurrent, total_hosts))
num_workers == Max(1, Min(args.concurrent, Len(hosts_to_process)))

\* ---- files ----
\* one more row (or line) at the end of a file
Put(file, x) == file (+) SetToBag({x})
Copies(file, x) == CopiesIn(x, file)

\* ---- task positions ----
Tasks == 1..Len(hosts_to_process)
TaskIds == 1..MaxTasks
\* task i exists and is at this position
At(i, where) == i \in Tasks /\ pc[i] = where
Ended == {"ok", "error", "raised"}
Waiting == {"new", "queued"}
Active == {i \in Tasks : pc[i] \notin Ended \cup Waiting}
AllEnded(S) == \A i \in S : pc[i] \in Ended

\* An I/O call may fail while the fault budget lasts.
MayFail == IF faults < MaxFaults THEN BOOLEAN ELSE {FALSE}
Charge(fail) == faults' = faults + (IF fail THEN 1 ELSE 0)

\* row_data, lines 1434-1458, as far as the rows are told apart here
row_data(i) == [ip_host |-> hosts_to_process[i], https |-> https_res[i], http |-> http_res[i]]

\* ---- initial state: nothing has run; the output directory is empty ----
ArgSets ==
    [concurrent : 1..MaxConcurrent,
     resume : BOOLEAN,
     store_headers : {"all", "essential", "none"},
     jitter : {0, 1}]

\* The input files: host names are opaque strings, so the k-th distinct host of a
\* file is called k.
InputFiles ==
    {f \in SeqsUpTo(Lines, MaxLines) :
        \A k \in 1..Len(f) : \A h \in 1..(f[k] - 1) : \E j \in 1..(k - 1) : f[j] = h}

\* ---- the XML and the JSON file as the file system holds them ----

Formats == {"xml", "json"}
full_path == "full_path"
backup_path == "backup_path"
Paths == {full_path, "temp_file", backup_path}

Absent == [state |-> "absent", results |-> <<>>]      \* no such file
Empty == [state |-> "empty", results |-> <<>>]        \* opened for writing, size 0
Partial == [state |-> "partial", results |-> <<>>]    \* a truncated document
Whole(results) == [state |-> "whole", results |-> results]

NoWriter == [pc |-> "off", fmt |-> "xml", data |-> <<>>, entry |-> 0, done |-> 0]
NoAppend == [active |-> FALSE, loaded |-> FALSE, pre |-> Absent, entry |-> 0]

\* ---- the global locks, lines 57-61, and the CSV file as lines ----
Locks == {"excel_lock", "xml_lock", "csv_lock", "json_lock", "processed_lock"}
Free == 0                       \* no task holds the lock
NoHolders == [l \in Locks |-> Free]
Header == 0                     \* the line of EXCEL_COLUMNS; a row is its host
NoFile == [exists |-> FALSE, lines |-> <<>>]
\* no call of process_host has started a browser
NoDrivers == [i \in TaskIds |-> "none"]

InitStorage ==
    /\ disk = [f \in Formats |-> [p \in Paths |-> Absent]]
    /\ writer = NoWriter
    /\ latest = [f \in Formats |-> NoAppend]
    /\ lock = NoHolders
    /\ csv_file = NoFile
    /\ chrome = NoDrivers

NoStart == [xlsx |-> EmptyBag, xml |-> EmptyBag, csv |-> EmptyBag, json |-> EmptyBag,
            progress |-> EmptyBag, skip |-> {}, read_fails |-> FALSE, read_failed |-> FALSE]

InitMemory ==
    /\ running = TRUE
    /\ main_pc = "init"
    /\ hosts_to_process = <<>>
    /\ submitted = 0
    /\ pc = <<>>
    /\ https_res = <<>>
    /\ http_res = <<>>
    /\ wb = <<>>
    /\ processed_ips = {}
    /\ runs = 0
    /\ faults = 0
    /\ start = NoStart
    /\ InitStorage

Init ==
    /\ script = Gemini
    /\ network = "up"
    /\ ip_file \in InputFiles
    /\ args \in ArgSets
    /\ InitMemory
    /\ NoCall
    /\ xlsx = EmptyBag /\ backups = {} /\ xml = EmptyBag /\ csv = EmptyBag /\ json = EmptyBag
    /\ progress = EmptyBag

\* ---- main(), lines 1665-1729: host list, resume filter, output files ----
main_begin ==
    /\ \E read_fails \in (IF args.resume /\ progress # EmptyBag THEN MayFail ELSE {FALSE}),
          unique \in deduplicated(read_hosts(ip_file)) :
         LET loaded == IF args.resume THEN load_processed_ips(progress, read_fails) ELSE {}
             todo == filter_hosts(unique, loaded)
             n == Len(todo)
         IN /\ processed_ips' = loaded
            /\ hosts_to_process' = todo
            /\ pc' = [i \in 1..n |-> "new"]
            /\ https_res' = [i \in 1..n |-> "none"]
            /\ http_res' = [i \in 1..n |-> "none"]
            /\ wb' = [i \in 1..n |-> EmptyBag]
            /\ main_pc' = IF n = 0 THEN "ended"
                          ELSE IF Max(1, Min(args.concurrent, n)) > 1 THEN "submit"
                          ELSE "seq"
            /\ Charge(read_fails)
            /\ start' = [xlsx |-> xlsx, xml |-> xml, csv |-> csv, json |-> json,
                         progress |-> progress, skip |-> loaded,
                         read_fails |-> read_fails,
                         read_failed |-> start.read_failed \/ read_fails]
    /\ running' = TRUE
    /\ submitted' = 0
    /\ runs' = runs + 1
    /\ UNCHANGED <<files, config, chrome, storage, call>>

\* the first run on an output directory
main_setup ==
    /\ main_pc = "init"
    /\ main_begin
    /\ UNCHANGED sink

\* the program is started again on the same input file and output directory
main_restart ==
    /\ main_pc \in {"ended", "killed"}
    /\ runs < MaxRuns
    /\ main_begin
    /\ UNCHANGED sink

\* the process is gone: its memory with it, the files stay
Exit(how) ==
    /\ main_pc' = how
    /\ hosts_to_process' = <<>>
    /\ submitted' = 0
    /\ pc' = <<>> /\ https_res' = <<>> /\ http_res' = <<>> /\ wb' = <<>>
    /\ processed_ips' = {}
    /\ lock' = NoHolders
    /\ UNCHANGED <<config, chrome, storage, call, files, csv_file, runs, faults, start>>

\* ---- main(), lines 1736-1763: the submission loop.  The loop's own test of the
\* flag never sees it down: signal_handler raises SystemExit in this thread ----
main_submit ==
    /\ main_pc = "submit"
    /\ running
    /\ IF submitted < Len(hosts_to_process)
       THEN /\ pc' = [pc EXCEPT ![submitted + 1] = "queued"]
            /\ submitted' = submitted + 1
            /\ main_pc' = main_pc
       ELSE /\ main_pc' = "poll"
            /\ UNCHANGED <<pc, submitted>>
    /\ UNCHANGED <<config, chrome, sink, storage, call, running, hosts_to_process, https_res, http_res, wb,
                   processed_ips, files, runs, faults, start>>

\* ---- main(), lines 1766-1823: the result loop ends when every future is done;
\* after SystemExit, leaving the with-block joins the workers, which drain the queue ----
main_pool_done ==
    /\ \/ main_pc = "poll" /\ AllEnded(Tasks)
       \/ main_pc = "join" /\ AllEnded({i \in Tasks : pc[i] # "new"})
    /\ Exit("ended")
    /\ UNCHANGED running

\* ---- main(), lines 1825-1861: the sequential loop ends after the last host, or
\* with the exception a call of process_host raised ----
main_sequential_done ==
    /\ main_pc = "seq"
    /\ AllEnded(Tasks) \/ \E i \in Tasks : pc[i] = "raised"
    /\ Exit("ended")
    /\ UNCHANGED running

\* ---- process_host ----
Goto(i, where) == pc' = [pc EXCEPT ![i] = where]

\* what no step of process_host writes
TaskFrame == UNCHANGED <<config, chrome, sink, storage, call, running, main_pc, hosts_to_process, submitted, runs, start>>

\* setup_driver, lines 266-284, called at line 1406: a driver that cannot start calls
\* sys.exit(1).  SystemExit passes "except Exception" (1520), and in the finally block
\* "del https_res" (1545) of the unbound local raises UnboundLocalError in its place.
setup_driver_then_http(fail) == IF fail THEN "raised" ELSE "http"
setup_driver(fail) == IF fail THEN "raised" ELSE "https"

\* process_host without the flag check on entry
process_host_enter_unchecked(i, jitter) ==
    /\ \E fail \in MayFail :
         /\ jitter > 0 => ~fail
         /\ Goto(i, IF jitter > 0 THEN "jitter" ELSE setup_driver(fail))
         /\ Charge(fail)
    /\ UNCHANGED <<https_res, http_res, wb, processed_ips, files>>
    /\ TaskFrame

\* lines 1390-1412: the flag check on entry; with jitter > 0 the sleep (the flag is
\* checked again after it); otherwise driver and session are set up
process_host_enter(i, jitter) ==
    /\ \E fail \in MayFail :
         /\ (~running \/ jitter > 0) => ~fail
         /\ Goto(i, IF ~running THEN "error"
                    ELSE IF jitter > 0 THEN "jitter"
                    ELSE setup_driver(fail))
         /\ Charge(fail)
    /\ UNCHANGED <<https_res, http_res, wb, processed_ips, files>>
    /\ TaskFrame

\* a pool thread that is free takes the oldest queued work item
executor_run(i) ==
    /\ At(i, "queued")
    /\ main_pc \in {"submit", "poll", "join"}
    /\ \A j \in 1..(i - 1) : pc[j] # "queued"
    /\ Cardinality(Active) < num_workers
    /\ process_host_enter(i, args.jitter)

\* lines 1827-1846: the sequential loop calls process_host in the main thread, the
\* first host without jitter.  webscreengrab5.py (1173-1199) sleeps in main and
\* passes jitter 0.
main_sequential(i) ==
    /\ At(i, "new")
    /\ main_pc = "seq"
    /\ running
    /\ \A j \in 1..(i - 1) : pc[j] \in {"ok", "error"}
    /\ process_host_enter(i, IF i > 1 /\ script = Gemini THEN args.jitter ELSE 0)

\* line 1401: the flag check after the jitter sleep; webscreengrab5.py (876-880)
\* has none
stops_after_jitter == ~running /\ script = Gemini

\* lines 1400-1412: the flag check after the jitter sleep, then the set-up
process_host_after_jitter(i) ==
    /\ At(i, "jitter")
    /\ \E fail \in MayFail :
         /\ stops_after_jitter => ~fail
         /\ Goto(i, IF stops_after_jitter THEN "error" ELSE setup_driver(fail))
         /\ Charge(fail)
    /\ UNCHANGED <<https_res, http_res, wb, processed_ips, files>>
    /\ TaskFrame

\* test_protocol, lines 506-513: the placeholder when entered with the flag down,
\* without a probe.  Lines 588-612: the page load of a host that is down raises; the
\* browser then holds no page source, or that of an error page or of a part of the
\* page.  Lines 670-701: the fetch of such a host raises too.
FailedOutcomes ==
    {"failed", "failed, page source without keyword", "failed, page source with keyword"}
test_protocol ==
    IF ~running THEN {"skipped"}
    ELSE IF network = "unreachable" THEN FailedOutcomes
    ELSE {"probed"}

\* line 1416
process_host_https(i) ==
    /\ At(i, "https")
    /\ \E res \in test_protocol : https_res' = [https_res EXCEPT ![i] = res]
    /\ Goto(i, "https_check")
    /\ UNCHANGED <<http_res, wb, processed_ips, files, faults>>
    /\ TaskFrame

\* process_host without the flag check after the HTTPS probe
after_https_unchecked == "http"

\* line 1417: the return inside try runs the finally block, whose "del http_res"
\* (1546) of the still unbound local raises UnboundLocalError; webscreengrab5.py
\* (893-894) returns the error, its finally block has no del
after_https ==
    IF ~running THEN (IF script = Gemini THEN "raised" ELSE "error") ELSE "http"

process_host_https_check(i) ==
    /\ At(i, "https_check")
    /\ Goto(i, after_https)
    /\ UNCHANGED <<https_res, http_res, wb, processed_ips, files, faults>>
    /\ TaskFrame

\* line 1419
process_host_http(i) ==
    /\ At(i, "http")
    /\ \E res \in test_protocol : http_res' = [http_res EXCEPT ![i] = res]
    /\ Goto(i, "http_check")
    /\ UNCHANGED <<https_res, wb, processed_ips, files, faults>>
    /\ TaskFrame

\* line 1420; the merge of lines 1423-1493 touches no shared state.  webscreengrab5.py
\* (896-897) goes from the HTTP probe to the record without a check.
after_http == IF ~running /\ script = Gemini THEN "error" ELSE "init_excel"

process_host_http_check(i) ==
    /\ At(i, "http_check")
    /\ Goto(i, after_http)
    /\ UNCHANGED <<https_res, http_res, wb, processed_ips, files, faults>>
    /\ TaskFrame

\* init_excel, lines 808-879, called at line 1500: under excel_lock, load the file
\* into a workbook object of this call
init_excel(i) ==
    /\ At(i, "init_excel")
    /\ wb' = [wb EXCEPT ![i] = xlsx]
    /\ Goto(i, "excel")
    /\ UNCHANGED <<https_res, http_res, processed_ips, files, faults>>
    /\ TaskFrame

\* wb.save(full_path), line 980: the file becomes the workbook object's rows
wb_save(workbook, file) == workbook

\* lines 982-984: PermissionError of wb.save is logged, "Skipping save for this row";
\* webscreengrab5.py (604-609) saves the workbook under a backup name
save_backup(workbook, fail) ==
    IF fail /\ script = V5 THEN backups \cup {workbook} ELSE backups

\* append_excel_row, lines 881-986: under excel_lock, add the row to the workbook
\* object passed in and save it over the file
append_excel_row(i) ==
    /\ At(i, "excel")
    /\ \E fail \in MayFail :
         /\ xlsx' = IF fail THEN xlsx ELSE wb_save(Put(wb[i], row_data(i)), xlsx)
         /\ backups' = save_backup(Put(wb[i], row_data(i)), fail)
         /\ Charge(fail)
    /\ wb' = [wb EXCEPT ![i] = Put(wb[i], row_data(i))]
    /\ Goto(i, "xml")
    /\ UNCHANGED <<https_res, http_res, processed_ips, xml, csv, json, progress>>
    /\ TaskFrame

\* lines 1077-1082 and 1092-1096: with --store-headers all a non-empty headers string
\* reaches ET.CDATA, which xml.etree.ElementTree does not have: AttributeError,
\* outside any try of append_xml_entry.  The string is json.dumps of the headers
\* (783-792), "{}" when the fetch failed, and empty only in the placeholder.
xml_raises(i) ==
    /\ script = Gemini
    /\ args.store_headers = "all"
    /\ https_res[i] # "skipped" \/ http_res[i] # "skipped"

\* append_xml_entry, lines 1008-1110: under xml_lock, parse the file, add the entry,
\* write a temporary file and os.replace it over the file; a failed write is logged.
\* The AttributeError is caught by process_host (1520-1526), which returns an error.
append_xml_entry(i) ==
    /\ At(i, "xml")
    /\ \E fail \in MayFail :
         /\ xml_raises(i) => ~fail
         /\ xml' = IF fail \/ xml_raises(i) THEN xml ELSE Put(xml, row_data(i))
         /\ Charge(fail)
    /\ Goto(i, IF xml_raises(i) THEN "error" ELSE "csv")
    /\ UNCHANGED <<https_res, http_res, wb, processed_ips, xlsx, backups, csv, json, progress>>
    /\ TaskFrame

\* append_csv_row, lines 1131-1170: under csv_lock, open for append and write the
\* row; an exception is logged
append_csv_row(i) ==
    /\ At(i, "csv")
    /\ \E fail \in MayFail :
         /\ csv' = IF fail THEN csv ELSE Put(csv, row_data(i))
         /\ Charge(fail)
    /\ Goto(i, "json")
    /\ UNCHANGED <<https_res, http_res, wb, processed_ips, xlsx, backups, xml, json, progress>>
    /\ TaskFrame

\* append_json_entry, lines 1194-1303: as append_xml_entry, under json_lock
append_json_entry(i) ==
    /\ At(i, "json")
    /\ \E fail \in MayFail :
         /\ json' = IF fail THEN json ELSE Put(json, row_data(i))
         /\ Charge(fail)
    /\ Goto(i, "mark")
    /\ UNCHANGED <<https_res, http_res, wb, processed_ips, xlsx, backups, xml, csv, progress>>
    /\ TaskFrame

\* save_processed_ip, lines 1369-1380: under processed_lock, append the line; an
\* exception is logged
save_processed_ip(ip, fail) == IF fail THEN progress ELSE Put(progress, ip)

\* lines 1509-1518: with a progress file, add the host to the in-memory set, append
\* it to the file, and return row_data
process_host_mark(i) ==
    /\ At(i, "mark")
    /\ \E fail \in MayFail :
         /\ ~args.resume => ~fail
         /\ progress' = IF args.resume THEN save_processed_ip(hosts_to_process[i], fail)
                        ELSE progress
         /\ Charge(fail)
    /\ processed_ips' = IF args.resume THEN processed_ips \cup {hosts_to_process[i]}
                        ELSE processed_ips
    /\ Goto(i, "ok")
    /\ UNCHANGED <<https_res, http_res, wb, xlsx, backups, xml, csv, json>>
    /\ TaskFrame

\* ---- signal_handler, lines 204-212: runs in the main thread; sets the flag, sleeps
\* and raises SystemExit there.  In the sequential loop that unwinds the running
\* process_host and ends the process; in pool mode it leaves the with-block, which
\* joins the workers ----
signal_handler ==
    /\ running
    /\ main_pc \in {"submit", "poll", "seq"}
    /\ running' = FALSE
    /\ IF main_pc = "seq"
       THEN Exit("ended")
       ELSE /\ main_pc' = "join"
            /\ UNCHANGED <<config, chrome, sink, storage, call, hosts_to_process, submitted, pc, https_res, http_res,
                           wb, processed_ips, files, runs, faults, start>>

process_host(i) ==
    \/ executor_run(i)
    \/ main_sequential(i)
    \/ process_host_after_jitter(i)
    \/ process_host_https(i)
    \/ process_host_https_check(i)
    \/ process_host_http(i)
    \/ process_host_http_check(i)
    \/ init_excel(i)
    \/ append_excel_row(i)
    \/ append_xml_entry(i)
    \/ append_csv_row(i)
    \/ append_json_entry(i)
    \/ process_host_mark(i)

Next ==
    \/ main_setup
    \/ main_submit
    \/ main_pool_done
    \/ main_sequential_done
    \/ signal_handler
    \/ \E i \in TaskIds : process_host(i)

Spec == Init /\ [][Next]_vars

\* ---- the same run of webscreengrab5.py ----
InitV5 ==
    /\ script = V5
    /\ network = "up"
    /\ ip_file \in InputFiles
    /\ args \in ArgSets
    /\ InitMemory
    /\ NoCall
    /\ xlsx = EmptyBag /\ backups = {} /\ xml = EmptyBag /\ csv = EmptyBag /\ json = EmptyBag
    /\ progress = EmptyBag

SpecV5 == InitV5 /\ [][Next]_vars

\* ---- runs one after another on the same output directory with --resume and the
\* defaults of --jitter (0.5) and --store-headers (essential), lines 1568 and 1597;
\* a run may be killed (SIGKILL, power loss) at any point ----
kill ==
    /\ main_pc \in {"submit", "poll", "join", "seq"}
    /\ Exit("killed")
    /\ UNCHANGED running

InitResume ==
    /\ script = Gemini
    /\ network = "up"
    /\ ip_file \in InputFiles
    /\ args \in {a \in ArgSets : a.resume /\ a.jitter = 1 /\ a.store_headers = "essential"}
    /\ InitMemory
    /\ NoCall
    /\ xlsx = EmptyBag /\ backups = {} /\ xml = EmptyBag /\ csv = EmptyBag /\ json = EmptyBag
    /\ progress \in {EmptyBag, SetToBag({Blank})}

NextResume ==
    \/ Next
    \/ kill
    \/ main_restart

SpecResume == InitResume /\ [][NextResume]_vars

\* ---- init_xml/init_json and append_xml_entry/append_json_entry step by step, with
\* the process killed at any point; the two formats run the same steps ----
MaxAppends == 2

\* an append that writes the document in place
temp_file_in_place == full_path

\* temp_file = f"{full_path}.tmp"
temp_file == "temp_file"

\* os.rename / os.replace
os_replace(dir, src, dst) ==
    IF src = dst THEN dir ELSE [dir EXCEPT ![dst] = dir[src], ![src] = Absent]

\* lines 1105-1110: if os.path.exists(temp_file): os.remove(temp_file);
\* webscreengrab5.py (677-679, 807-814) has no handler, the file stays
remove_temp(dir) == IF script = Gemini THEN [dir EXCEPT ![temp_file] = Absent] ELSE dir

StorageFrame ==
    UNCHANGED <<config, chrome, sink, call, running, main_pc, hosts_to_process, submitted, pc,
                https_res, http_res, wb, processed_ips, files, start>>

\* main starts: the next thing it does to these files is init_xml
writer_start ==
    /\ writer.pc \in {"off", "dead"}
    /\ runs < MaxRuns
    /\ writer' = [NoWriter EXCEPT !.pc = "init"]
    /\ runs' = runs + 1
    /\ UNCHANGED <<disk, latest, faults>>
    /\ StorageFrame

\* SIGKILL or power loss: memory is gone, the files stay as they are
writer_killed ==
    /\ writer.pc \notin {"off", "dead"}
    /\ writer' = [NoWriter EXCEPT !.pc = "dead"]
    /\ UNCHANGED <<disk, latest, runs, faults>>
    /\ StorageFrame

\* main calls init_xml, then init_json, then process_host
after_init(f) ==
    IF f = "xml" THEN [writer EXCEPT !.pc = "init", !.fmt = "json"]
    ELSE [writer EXCEPT !.pc = "idle", !.fmt = "xml"]

\* init_xml/init_json, line 997: a missing or empty file is (re)created;
\* webscreengrab5.py (619, 734) looks at existence only
needs_init(file) ==
    IF script = Gemini THEN file.state \in {"absent", "empty"} ELSE file.state = "absent"

\* lines 1001-1005: a failed write is logged; in webscreengrab5.py (623, 739-740) the
\* exception leaves main
after_failed_init(f) ==
    IF script = Gemini THEN after_init(f) ELSE [NoWriter EXCEPT !.pc = "dead"]

\* init_xml/init_json: the file is opened for writing at full_path
init_document_open(f) ==
    /\ writer.pc = "init" /\ writer.fmt = f
    /\ IF needs_init(disk[f][full_path])
       THEN \E fail \in MayFail :
              /\ Charge(fail)
              /\ IF fail
                 THEN /\ writer' = after_failed_init(f)
                      /\ UNCHANGED <<disk, latest>>
                 ELSE /\ disk' = [disk EXCEPT ![f][full_path] = Empty]
                      /\ writer' = [writer EXCEPT !.pc = "init_opened"]
                      /\ latest' = [latest EXCEPT ![f] = NoAppend]
       ELSE /\ writer' = after_init(f)
            /\ UNCHANGED <<disk, latest, faults>>
    /\ UNCHANGED runs
    /\ StorageFrame

\* the first bytes of the empty document reach the file
init_document_write(f) ==
    /\ writer.pc = "init_opened" /\ writer.fmt = f
    /\ disk' = [disk EXCEPT ![f][full_path] = Partial]
    /\ writer' = [writer EXCEPT !.pc = "init_writing"]
    /\ UNCHANGED <<latest, runs, faults>>
    /\ StorageFrame

\* the rest of the empty document is written and the file closed
init_document_close(f) ==
    /\ writer.pc = "init_writing" /\ writer.fmt = f
    /\ disk' = [disk EXCEPT ![f][full_path] = Whole(<<>>)]
    /\ writer' = after_init(f)
    /\ UNCHANGED <<latest, runs, faults>>
    /\ StorageFrame

\* process_host appends a host's record to the XML file and then to the JSON file
after_append(f) ==
    IF f = "xml"
    THEN [writer EXCEPT !.pc = "idle", !.fmt = "json", !.data = <<>>]
    ELSE [writer EXCEPT !.pc = "idle", !.fmt = "xml", !.data = <<>>, !.entry = 0,
                        !.done = writer.done + 1]

\* lines 1020-1021 and 1032: ET.parse / json.load is called on a file that exists
\* and is not empty, and raises on a truncated document; webscreengrab5.py (633-635,
\* 750-752) calls it on whatever is there, an empty file raises the parse error too
parse_fails(file) ==
    IF script = Gemini THEN file.state = "partial" ELSE file.state \in {"empty", "partial"}

\* lines 1035-1039: the file that failed to parse is renamed to backup_path unless
\* os.rename raises; webscreengrab5.py (635-639, 752-757) renames nothing
renames_aside(parse_error, fail) == script = Gemini /\ parse_error /\ ~fail

\* webscreengrab5.py: ET.parse of a missing file raises FileNotFoundError, and an
\* I/O error of the read is not caught either: the append raises before it writes
\* (json.load's FileNotFoundError is caught, 752); lines 1041-1043 catch them all
load_raises(f, file, fail) ==
    /\ script = V5
    /\ fail \/ (f = "xml" /\ file.state = "absent")

\* the load at the head of append_xml_entry/append_json_entry: a missing or empty
\* file gives a fresh structure, a parse error renames the file aside and gives a
\* fresh structure, any other error gives a fresh structure; then the entry is added
append_entry_load(f) ==
    /\ writer.pc = "idle" /\ writer.fmt = f
    /\ writer.done < MaxAppends
    /\ \E e \in (IF f = "xml" THEN Hosts ELSE {writer.entry}), fail \in MayFail :
         LET file == disk[f][full_path]
             parse_error == parse_fails(file)
             data == IF file.state = "whole" /\ ~fail THEN file.results ELSE <<>>
         IN /\ fail => file.state \in {"whole", "partial"}
            /\ fail => script = Gemini \/ file.state = "whole"
            /\ Charge(fail)
            /\ disk' = IF renames_aside(parse_error, fail)
                       THEN [disk EXCEPT ![f] = os_replace(@, full_path, backup_path)]
                       ELSE disk
            /\ writer' = IF load_raises(f, file, fail)
                         THEN [after_append(f) EXCEPT !.entry = e]
                         ELSE [writer EXCEPT !.pc = "built", !.entry = e,
                                             !.data = Append(data, e)]
            /\ latest' = [latest EXCEPT ![f] = [active |-> TRUE,
                                                loaded |-> ~parse_error /\ ~fail,
                                                pre |-> file,
                                                entry |-> e]]
    /\ UNCHANGED runs
    /\ StorageFrame

\* the temporary file is opened for writing
append_entry_open_temp(f) ==
    /\ writer.pc = "built" /\ writer.fmt = f
    /\ \E fail \in MayFail :
         /\ Charge(fail)
         /\ IF fail
            THEN /\ disk' = [disk EXCEPT ![f] = remove_temp(@)]
                 /\ writer' = after_append(f)
            ELSE /\ disk' = [disk EXCEPT ![f][temp_file] = Empty]
                 /\ writer' = [writer EXCEPT !.pc = "temp_opened"]
    /\ UNCHANGED <<latest, runs>>
    /\ StorageFrame

\* the first bytes of the document reach the temporary file
append_entry_write_temp(f) ==
    /\ writer.pc = "temp_opened" /\ writer.fmt = f
    /\ disk' = [disk EXCEPT ![f][temp_file] = Partial]
    /\ writer' = [writer EXCEPT !.pc = "temp_writing"]
    /\ UNCHANGED <<latest, runs, faults>>
    /\ StorageFrame

\* the rest of the document is written, or the write raises and the temporary
\* file is removed
append_entry_close_temp(f) ==
    /\ writer.pc = "temp_writing" /\ writer.fmt = f
    /\ \E fail \in MayFail :
         /\ Charge(fail)
         /\ IF fail
            THEN /\ disk' = [disk EXCEPT ![f] = remove_temp(@)]
                 /\ writer' = after_append(f)
            ELSE /\ disk' = [disk EXCEPT ![f][temp_file] = Whole(writer.data)]
                 /\ writer' = [writer EXCEPT !.pc = "temp_written"]
    /\ UNCHANGED <<latest, runs>>
    /\ StorageFrame

\* os.replace(temp_file, full_path), or it raises and the temporary file is removed
append_entry_replace(f) ==
    /\ writer.pc = "temp_written" /\ writer.fmt = f
    /\ \E fail \in MayFail :
         /\ Charge(fail)
         /\ disk' = [disk EXCEPT ![f] = IF fail THEN remove_temp(@)
                                        ELSE os_replace(@, temp_file, full_path)]
    /\ writer' = after_append(f)
    /\ UNCHANGED <<latest, runs>>
    /\ StorageFrame

NextAtomic ==
    \/ writer_start
    \/ writer_killed
    \/ \E f \in Formats :
         \/ init_document_open(f)
         \/ init_document_write(f)
         \/ init_document_close(f)
         \/ append_entry_load(f)
         \/ append_entry_open_temp(f)
         \/ append_entry_write_temp(f)
         \/ append_entry_close_temp(f)
         \/ append_entry_replace(f)

InitAtomic ==
    /\ script = Gemini
    /\ network = "up"
    /\ ip_file = <<>>
    /\ args \in {a \in ArgSets : a.concurrent = 1 /\ ~a.resume /\ a.jitter = 1
                                 /\ a.store_headers = "essential"}
    /\ InitMemory
    /\ NoCall
    /\ xlsx = EmptyBag /\ backups = {} /\ xml = EmptyBag /\ csv = EmptyBag /\ json = EmptyBag
    /\ progress = EmptyBag

SpecAtomic == InitAtomic /\ [][NextAtomic]_vars

\* ---- the same writers of webscreengrab5.py ----
InitAtomicV5 ==
    /\ script = V5
    /\ network = "up"
    /\ ip_file = <<>>
    /\ args \in {a \in ArgSets : a.concurrent = 1 /\ ~a.resume /\ a.jitter = 1
                                 /\ a.store_headers = "essential"}
    /\ InitMemory
    /\ NoCall
    /\ xlsx = EmptyBag /\ backups = {} /\ xml = EmptyBag /\ csv = EmptyBag /\ json = EmptyBag
    /\ progress = EmptyBag

SpecAtomicV5 == InitAtomicV5 /\ [][NextAtomic]_vars

\* ---- identify_bms_system, lines 287-467.  A text is the sequence of its words; a
\* keyword occurs in a text when its words occur there one after the other.  A
\* system name is a text too, with "(" and ")" as words of their own. ----

\* str.lower(), word by word
LowerTable ==
    << <<"Metasys", "metasys">>, <<"JCI", "jci">>, <<"Desigo", "desigo">>,
       <<"Niagara", "niagara">>, <<"WebCTRL", "webctrl">>, <<"Multitel", "multitel">>,
       <<"IO", "io">>, <<"BACnet", "bacnet">>, <<"Modbus", "modbus">>, <<"BMS", "bms">>,
       <<"SCADA", "scada">>, <<"Login", "login">>, <<"Welcome", "welcome">>,
       <<"Default", "default">>, <<"Password", "password">>, <<"System", "system">>,
       <<"Building", "building">>, <<"HVAC", "hvac">>, <<"Web", "web">>,
       <<"Server", "server">>, <<"X-Powered-By", "x-powered-by">>,
       <<"Johnson", "johnson">>, <<"Controls", "controls">>, <<"Siemens", "siemens">>,
       <<"Honeywell", "honeywell">>, <<"Automated", "automated">>, <<"Logic", "logic">>,
       <<"Tridium", "tridium">>, <<"Generic", "generic">>, <<"Bacnet", "bacnet">>,
       <<"Bms", "bms">>, <<"Scada", "scada">>, <<"Page", "page">>,
       <<"Potential", "potential">>, <<"Embedded", "embedded">>, <<"Device", "device">>,
       <<"Header", "header">>, <<"Common", "common">>, <<"Windows", "windows">>,
       <<"Host", "host">>, <<"Standard", "standard">>, <<"Framework", "framework">>,
       <<"Detected", "detected">>, <<"Unknown", "unknown">>, <<"Alpha", "alpha">>,
       <<"ABCS", "abcs">>, <<"Insight", "insight">> >>
lower_word(w) ==
    IF \E k \in 1..Len(LowerTable) : LowerTable[k][1] = w
    THEN LowerTable[CHOOSE k \in 1..Len(LowerTable) : LowerTable[k][1] = w][2]
    ELSE w
lower(text) == [k \in 1..Len(text) |-> lower_word(text[k])]

\* str.capitalize(): the first letter in upper case, the rest in lower case
CapitalizeTable ==
    << <<"bacnet", "Bacnet">>, <<"modbus", "Modbus">>, <<"bms", "Bms">>,
       <<"scada", "Scada">> >>
capitalize(text) ==
    [k \in 1..Len(text) |->
        IF k = 1
        THEN CapitalizeTable[CHOOSE j \in 1..Len(CapitalizeTable) :
                                 CapitalizeTable[j][1] = lower_word(text[1])][2]
        ELSE lower_word(text[k])]

\* "part in text"
contains(text, part) ==
    \E k \in 0..(Len(text) - Len(part)) : SubSeq(text, k + 1, k + Len(part)) = part

\* lines 92-168: the entries of the table whose keyword occurs in a text of Titles,
\* Bodies, HeaderSets, ScoreTitles, ScoreBodies or ScoreHeaderSets, in the order of
\* the table
BMS_SIGNATURES_SCORED ==
    << [system_name |-> <<"Johnson", "Controls">>,
        keywords |-> << <<<<"Metasys">>, 10>>, <<<<"Johnson", "Controls">>, 10>>,
                        <<<<"JCI">>, 8>> >>],
       [system_name |-> <<"Siemens">>,
        keywords |-> << <<<<"Desigo">>, 10>>, <<<<"Siemens">>, 10>>, <<<<"Insight">>, 8>> >>],
       [system_name |-> <<"Honeywell">>,
        keywords |-> << <<<<"Niagara">>, 10>>, <<<<"Honeywell">>, 10>> >>],
       [system_name |-> <<"Automated", "Logic">>,
        keywords |-> << <<<<"WebCTRL">>, 10>>, <<<<"Automated", "Logic">>, 10>> >>],
       [system_name |-> <<"Tridium">>,
        keywords |-> << <<<<"Tridium">>, 10>>, <<<<"Niagara">>, 8>> >>],
       [system_name |-> <<"Alpha", "Controls">>,
        keywords |-> << <<<<"Alpha", "Building">>, 5>>, <<<<"ABCS">>, 10>>,
                        <<<<"Alpha", "Controls">>, 10>> >>],
       [system_name |-> <<"Multitel">>,
        keywords |-> << <<<<"Multitel">>, 10>>, <<<<"IO", "devices">>, 2>> >>] >>

\* lines 171-183, likewise
COMMON_BMS_KEYWORDS_SCORED ==
    << <<<<"BACnet">>, 2>>, <<<<"Modbus">>, 2>>, <<<<"BMS">>, 5>>, <<<<"SCADA">>, 3>> >>

\* lines 187-200: the clues that need no markup in the body.  A pattern is the set
\* of the lower-case texts it matches.
REGEX_CLUES ==
    << [pattern |-> {<<"building", "login">>, <<"system", "login">>, <<"hvac", "login">>},
        system_name |-> <<"Generic", "BMS", "(", "Login", "Page", ")">>,
        score |-> 3],
       [pattern |-> {<<"default", "password">>},
        system_name |-> <<"Potential", "Embedded", "Device", "Login">>,
        score |-> 2] >>

Unknown == <<"Unknown">>
generic_name(keyword) == <<"Generic", "BMS", "(">> \o capitalize(keyword) \o <<")">>
startswith_Generic_BMS(name) ==
    Len(name) >= 3 /\ SubSeq(name, 1, 3) = <<"Generic", "BMS", "(">>

\* The order of Python's string comparison on the system names.
SortedNames ==
    << <<"Alpha", "Controls">>,
       <<"Automated", "Logic">>,
       <<"Automated", "Logic", "(", "Server", "Header", ")">>,
       <<"Generic", "BMS", "(", "Bacnet", ")">>,
       <<"Generic", "BMS", "(", "Bms", ")">>,
       <<"Generic", "BMS", "(", "Login", "Page", ")">>,
       <<"Generic", "BMS", "(", "Modbus", ")">>,
       <<"Generic", "BMS", "(", "Protocol", "indicators", "found", ")">>,
       <<"Generic", "BMS", "(", "Scada", ")">>,
       <<"Generic", "Embedded", "Device", "(", "Common", "Server", ")">>,
       <<"Honeywell">>,
       <<"Johnson", "Controls">>,
       <<"Multitel">>,
       <<"Potential", "Embedded", "Device", "Login">>,
       <<"Potential", "Windows", "Server", "Host">>,
       <<"Siemens">>,
       <<"Standard", "Web", "Framework", "Detected">>,
       <<"Tridium">>,
       <<"Tridium", "Niagara", "(", "Server", "Header", ")">>,
       <<"Unknown">> >>
name_index(name) == CHOOSE k \in 1..Len(SortedNames) : SortedNames[k] = name
\* sorted(names)[0]
sorted_names_first(names) ==
    CHOOSE a \in names : \A b \in names : name_index(a) <= name_index(b)

\* headers is a dict: the sequence of its <<name, value>> items.
\* str(headers): the names and the values, item by item
RECURSIVE str_headers(_)
str_headers(headers) ==
    IF headers = <<>> THEN <<>>
    ELSE <<Head(headers)[1]>> \o Head(headers)[2] \o str_headers(Tail(headers))
\* headers.get(name, "")
headers_get(headers, name) ==
    IF \E k \in 1..Len(headers) : headers[k][1] = name
    THEN headers[CHOOSE k \in 1..Len(headers) : headers[k][1] = name][2]
    ELSE <<>>

\* line 309: matches = []
kept_matches == {<<result[k], 11>> : k \in 1..Len(result)} \ {<<Unknown, 11>>}

new_matches == {}

\* line 317: the bonus of a match in the title
title_score_no_bonus(score) == score

title_score(score) == score + 1

\* a header match that scores like a body match
header_score_no_penalty(score) == score

\* line 326: max(1, score - 1)
header_score(score) == Max(1, score - 1)

\* lines 312-326: the keywords of one system, in their order
RECURSIVE check_keywords(_, _, _, _)
check_keywords(system_name, keywords, text, matches) ==
    IF keywords = <<>> THEN matches
    ELSE LET keyword_lower == lower(Head(keywords)[1])
             score == Head(keywords)[2]
             found ==
                 IF contains(text.title_lower, keyword_lower)
                 THEN matches \cup {<<system_name, title_score(score)>>}
                 ELSE IF contains(text.body_lower, keyword_lower)
                 THEN matches \cup {<<system_name, score>>}
                 ELSE IF /\ contains(text.headers_lower_str, keyword_lower)
                         /\ ~\E m \in matches : m[1] = system_name
                 THEN matches \cup {<<system_name, header_score(score)>>}
                 ELSE matches
         IN  check_keywords(system_name, Tail(keywords), text, found)

\* lines 311-326: the systems, in the order of the table
RECURSIVE check_signatures(_, _, _)
check_signatures(signatures, text, matches) ==
    IF signatures = <<>> THEN matches
    ELSE check_signatures(Tail(signatures), text,
             check_keywords(Head(signatures).system_name, Head(signatures).keywords,
                            text, matches))

\* lines 328-337
RECURSIVE check_common(_, _, _)
check_common(keywords, text, matches) ==
    IF keywords = <<>> THEN matches
    ELSE LET keyword == Head(keywords)[1]
             keyword_lower == lower(keyword)
             score == Head(keywords)[2]
             found ==
                 IF contains(text.combined_text, keyword_lower)
                 THEN matches \cup {<<generic_name(keyword), score>>}
                 ELSE IF /\ contains(text.headers_lower_str, keyword_lower)
                         /\ ~\E m \in matches :
                                m[2] >= score /\ contains(m[1], capitalize(keyword))
                 THEN matches \cup {<<generic_name(keyword), Max(1, score - 1)>>}
                 ELSE matches
         IN  check_common(Tail(keywords), text, found)

\* lines 340-364
RECURSIVE check_regex(_, _, _)
check_regex(clues, text, matches) ==
    IF clues = <<>> THEN matches
    ELSE LET clue == Head(clues)
             findings == {p \in clue.pattern : contains(text.body_lower, p)}
             found ==
                 IF /\ findings # {}
                    /\ ~\E m \in matches : m[1] = clue.system_name /\ m[2] >= clue.score
                 THEN matches \cup {<<clue.system_name, clue.score>>}
                 ELSE matches
         IN  check_regex(Tail(clues), text, found)

\* lines 367-397
header_clues(headers) ==
    LET server_header == lower(headers_get(headers, "Server"))
        x_powered_by == lower(headers_get(headers, "X-Powered-By"))
    IN  (IF server_header = <<>> THEN {}
         ELSE IF contains(server_header, <<"niagara", "web", "server">>)
         THEN {<<<<"Tridium", "Niagara", "(", "Server", "Header", ")">>, 10>>}
         ELSE IF contains(server_header, <<"webctrl">>)
         THEN {<<<<"Automated", "Logic", "(", "Server", "Header", ")">>, 9>>}
         ELSE IF \/ contains(server_header, <<"lighttpd">>)
                 \/ contains(server_header, <<"apache">>)
                 \/ contains(server_header, <<"nginx">>)
         THEN {<<<<"Generic", "Embedded", "Device", "(", "Common", "Server", ")">>, 1>>}
         ELSE IF contains(server_header, <<"microsoft-iis">>)
         THEN {<<<<"Potential", "Windows", "Server", "Host">>, 1>>}
         ELSE {})
        \cup
        (IF /\ x_powered_by # <<>>
            /\ \/ contains(x_powered_by, <<"express">>)
               \/ contains(x_powered_by, <<"asp.net">>)
         THEN {<<<<"Standard", "Web", "Framework", "Detected">>, 1>>}
         ELSE {})

\* lines 399-402
add_header_clues(headers, matches) ==
    matches \cup {c \in header_clues(headers) :
                     ~\E m \in matches : m[1] = c[1] /\ m[2] >= c[2]}

\* lines 302-402: the list of matches, as a set
collect_matches(title, body, headers) ==
    LET title_lower == lower(title)
        body_lower == lower(body)
        text == [title_lower |-> title_lower,
                 body_lower |-> body_lower,
                 headers_lower_str |-> lower(str_headers(headers)),
                 combined_text |-> title_lower \o body_lower]
        signatures == check_signatures(BMS_SIGNATURES_SCORED, text, new_matches)
        common == check_common(COMMON_BMS_KEYWORDS_SCORED, text, signatures)
        regex == IF body # <<>> THEN check_regex(REGEX_CLUES, text, common) ELSE common
    IN  add_header_clues(headers, regex)

\* every collected name, whatever its score
top_candidates_any_score(matches) == {m[1] : m \in matches}

\* lines 409-421: the names that reached the best score
top_candidates(matches) ==
    LET best_score == CHOOSE s \in {m[2] : m \in matches} : \A m \in matches : s >= m[2]
    IN  {m[1] : m \in {n \in matches : n[2] = best_score}}

system_names == {BMS_SIGNATURES_SCORED[k].system_name : k \in 1..Len(BMS_SIGNATURES_SCORED)}
strong_terms == {<<"niagara">>, <<"webctrl">>, <<"metasys">>, <<"desigo">>, <<"tracer">>}

\* lines 433-437
is_specific_keyword(candidate) ==
    \E k \in 1..Len(BMS_SIGNATURES_SCORED) :
        \E j \in 1..Len(BMS_SIGNATURES_SCORED[k].keywords) :
            lower(candidate) = lower(BMS_SIGNATURES_SCORED[k].keywords[j][1])
\* lines 439-441
contains_strong_term(candidate) ==
    \E term \in strong_terms : contains(lower(candidate), term)

prioritize_generic_first(candidates) ==
    LET generic_bms_matches == {name \in candidates : startswith_Generic_BMS(name)}
    IN  IF generic_bms_matches # {} THEN sorted_names_first(generic_bms_matches)
        ELSE sorted_names_first(candidates)

\* lines 423-467
prioritize(candidates) ==
    LET specific_vendors == candidates \cap system_names
        high_confidence_others ==
            {candidate \in candidates :
                /\ is_specific_keyword(candidate) \/ contains_strong_term(candidate)
                /\ ~startswith_Generic_BMS(candidate) \/ contains_strong_term(candidate)}
        generic_bms_matches == {name \in candidates : startswith_Generic_BMS(name)}
        other_matches ==
            {name \in candidates :
                name \notin system_names /\ ~startswith_Generic_BMS(name)}
    IN  IF specific_vendors # {} THEN sorted_names_first(specific_vendors)
        ELSE IF high_confidence_others # {} THEN sorted_names_first(high_confidence_others)
        ELSE IF generic_bms_matches # {} THEN sorted_names_first(generic_bms_matches)
        ELSE IF other_matches # {} THEN sorted_names_first(other_matches)
        ELSE Unknown

no_match_first_name(matches) == SortedNames[1]

\* lines 405-407
no_match(matches) == Unknown

identify_bms_system(title, body, headers) ==
    IF title = <<>> /\ body = <<>> /\ headers = <<>> THEN Unknown
    ELSE LET matches == collect_matches(title, body, headers)
         IN  IF matches = {} THEN no_match(matches)
             ELSE prioritize(top_candidates(matches))

\* The texts the classifier is called with.
MaxCalls == 2
Titles == {<<>>, <<"Metasys", "Login">>, <<"IO", "devices">>}
Bodies ==
    {<<>>, <<"Welcome">>, <<"BACnet">>, <<"BMS">>, <<"SCADA">>, <<"BACnet", "Modbus">>,
     <<"Default", "Password">>, <<"BACnet", "Default", "Password">>,
     <<"SCADA", "System", "Login">>, <<"Metasys", "Desigo">>}
HeaderSets ==
    {<<>>, << <<"Server", <<"Niagara", "Web", "Server">>>> >>,
     << <<"Server", <<"WebCTRL">>>> >>, << <<"Server", <<"nginx">>>> >>}

ClassifyFrame ==
    UNCHANGED <<config, chrome, sink, files, storage, probe, running, main_pc, hosts_to_process, submitted,
                pc, https_res, http_res, wb, processed_ips, runs, faults, start>>

\* test_protocol, lines 757-771: a call with a page's title, body and headers
identify_bms_system_call ==
    /\ Len(arguments) < MaxCalls
    /\ \E title \in Titles, body \in Bodies, headers \in HeaderSets :
           /\ arguments' = Append(arguments, <<title, body, headers>>)
           /\ result' = Append(result, identify_bms_system(title, body, headers))
    /\ ClassifyFrame

\* a further call with the texts of an earlier one
identify_bms_system_again ==
    /\ Len(arguments) = MaxCalls
    /\ \E k \in 1..MaxCalls :
           /\ arguments' = Append(arguments, arguments[k])
           /\ result' = Append(result, identify_bms_system(arguments[k][1],
                                           arguments[k][2], arguments[k][3]))
    /\ ClassifyFrame

NextClassify == identify_bms_system_call \/ identify_bms_system_again

InitClassify ==
    /\ script = Gemini
    /\ network = "up"
    /\ ip_file = <<>>
    /\ args \in {a \in ArgSets : a.concurrent = 1 /\ ~a.resume /\ a.jitter = 1
                                 /\ a.store_headers = "essential"}
    /\ InitMemory
    /\ NoCall
    /\ xlsx = EmptyBag /\ backups = {} /\ xml = EmptyBag /\ csv = EmptyBag /\ json = EmptyBag
    /\ progress = EmptyBag

SpecClassify == InitClassify /\ [][NextClassify]_vars

\* ---- identify_bms_system, lines 302-421: the candidates and the best names of one
\* call, for texts with keywords of one system in several places and for texts with
\* protocol names and login words only ----
ScoreTitles == {<<>>, <<"Metasys", "Login">>, <<"Alpha", "Controls">>}
ScoreBodies ==
    {<<>>, <<"Welcome">>, <<"Metasys">>, <<"Alpha", "Building">>,
     <<"Alpha", "Building", "Insight">>, <<"JCI", "BACnet">>, <<"ABCS">>,
     <<"Johnson", "Controls", "Metasys">>, <<"SCADA", "System", "Login">>,
     <<"BACnet", "Default", "Password">>}
ScoreHeaderSets ==
    {<<>>, << <<"Server", <<"ABCS">>>> >>, << <<"Server", <<"Metasys">>>> >>,
     << <<"Server", <<"JCI", "nginx">>>> >>,
     << <<"X-Powered-By", <<"Alpha", "Controls">>>> >>}

identify_bms_system_candidates ==
    /\ arguments = <<>>
    /\ \E title \in ScoreTitles, body \in ScoreBodies, headers \in ScoreHeaderSets :
           /\ arguments' = <<title, body, headers>>
           /\ LET matches == collect_matches(title, body, headers)
              IN  result' = <<matches,
                              IF matches = {} THEN {} ELSE top_candidates(matches),
                              identify_bms_system(title, body, headers)>>
    /\ ClassifyFrame

SpecScores == InitClassify /\ [][identify_bms_system_candidates]_vars

\* ---- process_host, lines 1460-1493: the merge of the two protocol outcomes into
\* the record's screenshot, title and classification.  The merge has no side effect:
\* it is applied to every pair of outcomes test_protocol can return. ----

\* The labels of identify_bms_system that the merge tells apart: "Unknown", the
\* labels that start with "Generic" and the others.
BmsTypes ==
    IF script = Gemini
    THEN {Unknown, <<"Generic", "BMS", "(", "Bacnet", ")">>,
          <<"Generic", "BMS", "(", "Scada", ")">>, <<"Honeywell">>, <<"Siemens">>}
    ELSE {Unknown, <<"Generic", "BMS", "(", "Protocol", "indicators", "found", ")">>,
          <<"Honeywell">>, <<"Siemens">>}

\* str.startswith("Generic")
startswith_Generic(b) == Len(b) >= 1 /\ b[1] = "Generic"

\* What test_protocol returns, as far as the merge reads it.  The screenshot file
\* name carries the protocol; the titles of the two pages are told apart the same
\* way.  webscreengrab5.py sets the title and the works flag together.
Outcomes(protocol) ==
    {o \in [works : BOOLEAN,
            title : {"", protocol \o " title"},
            screenshot_path : {"", protocol \o ".png"},
            bms_type : BmsTypes] :
        script = V5 => (o.title # "" => o.works)}

\* Python's "a or b" on strings
Or(a, b) == IF a # "" THEN a ELSE b

is_specific(b) == b # Unknown /\ ~startswith_Generic(b)

\* lines 1462-1469 (webscreengrab5.py: the tests at lines 932 and 936)
preferred(res) ==
    IF script = Gemini
    THEN res.works /\ (res.screenshot_path # "" \/ is_specific(res.bms_type))
    ELSE res.works /\ res.screenshot_path # ""

from_outcome(res) ==
    [screenshot_path |-> res.screenshot_path,
     chosen_title |-> res.title,
     bms_type |-> res.bms_type]

fallback_bms_type_https_first(https, http) ==
    IF https.bms_type # Unknown THEN https.bms_type ELSE http.bms_type

\* lines 1483-1493
fallback_bms_type(https, http) ==
    LET bms_types == {https.bms_type, http.bms_type}
        specific_bms == {b \in bms_types : is_specific(b)}
        generic_bms == {b \in bms_types : b # Unknown /\ startswith_Generic(b)}
    IN  IF specific_bms # {} THEN sorted_names_first(specific_bms)
        ELSE IF generic_bms # {} THEN sorted_names_first(generic_bms)
        ELSE Unknown

\* webscreengrab5.py, lines 945-949
fallback_bms_type_v5(https, http) ==
    IF https.bms_type # Unknown THEN https.bms_type
    ELSE IF http.bms_type # Unknown THEN http.bms_type
    ELSE Unknown

merge(https, http) ==
    IF preferred(https) THEN from_outcome(https)
    ELSE IF preferred(http) THEN from_outcome(http)
    ELSE [screenshot_path |-> Or(https.screenshot_path, http.screenshot_path),
          chosen_title |-> Or(https.title, http.title),
          bms_type |-> IF script = Gemini THEN fallback_bms_type(https, http)
                       ELSE fallback_bms_type_v5(https, http)]

process_host_merge ==
    /\ Len(arguments) = 2
    /\ result = <<>>
    /\ result' = <<merge(arguments[1], arguments[2])>>
    /\ UNCHANGED <<config, chrome, sink, files, storage, arguments, probe, running, main_pc,
                   hosts_to_process, submitted, pc, https_res, http_res, wb,
                   processed_ips, runs, faults, start>>

InitMerge ==
    /\ script = Gemini
    /\ network = "up"
    /\ ip_file = <<>>
    /\ args \in {a \in ArgSets : a.concurrent = 1 /\ ~a.resume /\ a.jitter = 1
                                 /\ a.store_headers = "essential"}
    /\ InitMemory
    /\ xlsx = EmptyBag /\ backups = {} /\ xml = EmptyBag /\ csv = EmptyBag /\ json = EmptyBag
    /\ progress = EmptyBag
    /\ arguments \in {<<a, b>> : a \in Outcomes("https"), b \in Outcomes("http")}
    /\ result = <<>>
    /\ NoProbe

SpecMerge == InitMerge /\ [][process_host_merge]_vars

\* ---- the same merge of webscreengrab5.py, lines 931-949 ----
InitMergeV5 ==
    /\ script = V5
    /\ network = "up"
    /\ ip_file = <<>>
    /\ args \in {a \in ArgSets : a.concurrent = 1 /\ ~a.resume /\ a.jitter = 1
                                 /\ a.store_headers = "essential"}
    /\ InitMemory
    /\ xlsx = EmptyBag /\ backups = {} /\ xml = EmptyBag /\ csv = EmptyBag /\ json = EmptyBag
    /\ progress = EmptyBag
    /\ arguments \in {<<a, b>> : a \in Outcomes("https"), b \in Outcomes("http")}
    /\ result = <<>>
    /\ NoProbe

SpecMergeV5 == InitMergeV5 /\ [][process_host_merge]_vars

\* ---- a run on hosts that are down: every page load and every fetch fails.  The
\* options --resume, --jitter and --store-headers have their defaults. ----

\* What the browser holds after the failed load, lines 588-612.
page_source(res) ==
    IF res = "failed, page source without keyword" THEN <<"Welcome">>
    ELSE IF res = "failed, page source with keyword" THEN <<"Metasys", "Desigo">>
    ELSE <<>>

\* test_protocol, lines 515-527 and 770-777: the result of a probe that neither loaded
\* nor fetched the page; the title is not set, and the page source is classified when
\* there is one (webscreengrab5.py, line 421, classifies fetched pages only).  The
\* screenshot is left out: the merge of two sides that did not load does not read it
\* for the classification.
failed_result(res) ==
    [works |-> FALSE,
     title |-> "",
     screenshot_path |-> "",
     bms_type |-> IF script = Gemini /\ page_source(res) # <<>>
                  THEN identify_bms_system(<<>>, page_source(res), <<>>)
                  ELSE Unknown]

InitUnreachable ==
    /\ script = Gemini
    /\ network = "unreachable"
    /\ ip_file \in InputFiles
    /\ args \in {a \in ArgSets : ~a.resume /\ a.jitter = 1 /\ a.store_headers = "essential"}
    /\ InitMemory
    /\ NoCall
    /\ xlsx = EmptyBag /\ backups = {} /\ xml = EmptyBag /\ csv = EmptyBag /\ json = EmptyBag
    /\ progress = EmptyBag

SpecUnreachable == InitUnreachable /\ [][Next]_vars

\* ---- a run on an input file with more hosts than workers, with and without
\* --jitter; the options --resume and --store-headers are as in InitUnreachable ----
InitPool ==
    /\ script = Gemini
    /\ network = "up"
    /\ ip_file = [k \in 1..MaxTasks |-> k]
    /\ args \in {a \in ArgSets : ~a.resume /\ a.store_headers = "essential"}
    /\ InitMemory
    /\ NoCall
    /\ xlsx = EmptyBag /\ backups = {} /\ xml = EmptyBag /\ csv = EmptyBag /\ json = EmptyBag
    /\ progress = EmptyBag

SpecPool == InitPool /\ [][Next]_vars

\* ---- main(), lines 1665-1698 (webscreengrab5.py, lines 1072-1092): the work list
\* of a run, for input files with comment lines and progress files of earlier runs ----
InitWorkList ==
    /\ script \in {Gemini, V5}
    /\ network = "up"
    /\ ip_file \in SeqsUpTo(Lines \cup {Comment}, MaxLines)
    /\ args \in {a \in ArgSets : a.jitter = 1 /\ a.store_headers = "essential"}
    /\ InitMemory
    /\ NoCall
    /\ xlsx = EmptyBag /\ backups = {} /\ xml = EmptyBag /\ csv = EmptyBag /\ json = EmptyBag
    /\ progress \in {SetToBag(done) : done \in SUBSET Hosts}

SpecWorkList == InitWorkList /\ [][main_setup]_vars

\* ---- the four appends of process_host, lines 1496-1506, as far as they build the row
\* of a record: what each format holds of the host, the classification, the response
\* time and, as an example of the optional entries, the HTTPS content type ----

\* round(response_time, 2), line 705, in hundredths of a second
ResponseTimes == {0, 5, 50, 123}

\* a float written with one decimal
str_float_one_decimal(t) == [whole |-> t \div 100, decimals |-> <<(t % 100) \div 10>>]

\* str(value) and repr(value) of a float with at most two decimals: the whole part,
\* and the decimals without a trailing zero, but at least one
str_float(t) ==
    [whole |-> t \div 100,
     decimals |-> IF t % 10 = 0 THEN <<(t % 100) \div 10>>
                  ELSE <<(t % 100) \div 10, t % 10>>]
\* the number a reader of the file gets from such a string
float(s) ==
    s.whole * 100 + s.decimals[1] * 10 + (IF Len(s.decimals) > 1 THEN s.decimals[2] ELSE 0)

\* a row that was not written
NoRow == [written |-> FALSE]

\* append_excel_row, lines 896-902: ws.cell(..., value=row_data.get(...))
excel_row(row) ==
    [written |-> TRUE, host |-> row.ip_host, bms_type |-> row.bms_type,
     response_time |-> row.response_time,
     content_type |-> row.https_content_type]

\* lines 1077-1082: ET.CDATA(headers_str) for a non-empty string; the module
\* xml.etree.ElementTree has no CDATA, the call raises AttributeError
append_xml_entry_raises(row) ==
    args.store_headers = "all" /\ row.https_remote_headers # ""

\* append_xml_entry, lines 1053-1082: the sub-elements of the entry; add_sub_element
\* leaves out a value that is None or "", which 0 and 0.0 are not
xml_entry(row) ==
    [written |-> TRUE, host |-> row.ip_host, bms_type |-> row.bms_type,
     response_time |-> str_float(row.response_time),
     content_type |-> IF args.store_headers # "none" THEN row.https_content_type
                      ELSE ""]

\* append_csv_row, lines 1147-1162: csv.writer writes a float with repr
csv_row(row) ==
    [written |-> TRUE, host |-> row.ip_host, bms_type |-> row.bms_type,
     response_time |-> str_float(row.response_time),
     content_type |-> row.https_content_type]

\* append_json_entry, lines 1238-1285: the entry and its "https" object
json_entry(row) ==
    [written |-> TRUE, host |-> row.ip_host, bms_type |-> row.bms_type,
     response_time |-> str_float(row.response_time),
     content_type |-> IF ~row.store_minimal_json /\ args.store_headers # "none"
                      THEN row.https_content_type ELSE ""]

\* the records: the options --store-minimal-json is drawn with the record
RowData ==
    [ip_host : Hosts, bms_type : BmsTypes, response_time : ResponseTimes,
     https_content_type : {"", "text/html"}, https_remote_headers : {"", "{}"},
     store_minimal_json : BOOLEAN]

\* process_host, lines 1496-1506 and 1520-1526: the four appends in their order; the
\* exception of append_xml_entry ends them
append_rows ==
    /\ Len(arguments) = 1
    /\ result = <<>>
    /\ LET row == arguments[1]
       IN  result' = IF append_xml_entry_raises(row)
                     THEN <<excel_row(row), NoRow, NoRow, NoRow>>
                     ELSE <<excel_row(row), xml_entry(row), csv_row(row),
                            json_entry(row)>>
    /\ UNCHANGED <<config, chrome, sink, files, storage, arguments, probe, running, main_pc,
                   hosts_to_process, submitted, pc, https_res, http_res, wb,
                   processed_ips, runs, faults, start>>

InitRows ==
    /\ script = Gemini
    /\ network = "up"
    /\ ip_file = <<>>
    /\ args \in {a \in ArgSets : a.concurrent = 1 /\ ~a.resume /\ a.jitter = 1}
    /\ InitMemory
    /\ xlsx = EmptyBag /\ backups = {} /\ xml = EmptyBag /\ csv = EmptyBag /\ json = EmptyBag
    /\ progress = EmptyBag
    /\ arguments \in {<<r>> : r \in RowData}
    /\ result = <<>>
    /\ NoProbe

SpecRows == InitRows /\ [][append_rows]_vars

\* ---- process_host, lines 1423-1430 (webscreengrab5.py, lines 899-905): the
\* response time of the record, from the two outcomes' works flags and times ----

\* float('inf'): above every time
inf == 1 + CHOOSE m \in ResponseTimes : \A t \in ResponseTimes : t <= m

\* lines 1424-1425: the time of an outcome that did not load does not count;
\* webscreengrab5.py reads the time of either outcome
time_of(res) ==
    IF script = Gemini /\ ~res.works THEN inf ELSE res.response_time

\* lines 1426-1430; webscreengrab5.py, lines 900-905
chosen_response_time(https, http) ==
    LET https_time == time_of(https)
        http_time == time_of(http)
    IN  IF Min(https_time, http_time) # inf THEN Min(https_time, http_time)
        ELSE IF script = Gemini THEN Min(https.response_time, http.response_time)
        ELSE 0

TimedOutcomes == [works : BOOLEAN, response_time : ResponseTimes]

process_host_response_time ==
    /\ Len(arguments) = 2
    /\ result = <<>>
    /\ result' = <<chosen_response_time(arguments[1], arguments[2])>>
    /\ UNCHANGED <<config, chrome, sink, files, storage, arguments, probe, running, main_pc,
                   hosts_to_process, submitted, pc, https_res, http_res, wb,
                   processed_ips, runs, faults, start>>

InitResponseTime ==
    /\ script \in {Gemini, V5}
    /\ network = "up"
    /\ ip_file = <<>>
    /\ args \in {a \in ArgSets : a.concurrent = 1 /\ ~a.resume /\ a.jitter = 1
                                 /\ a.store_headers = "essential"}
    /\ InitMemory
    /\ xlsx = EmptyBag /\ backups = {} /\ xml = EmptyBag /\ csv = EmptyBag /\ json = EmptyBag
    /\ progress = EmptyBag
    /\ arguments \in {<<a, b>> : a \in TimedOutcomes, b \in TimedOutcomes}
    /\ result = <<>>
    /\ NoProbe

SpecResponseTime == InitResponseTime /\ [][process_host_response_time]_vars

\* ---- test_protocol, lines 501-794 (webscreengrab5.py, lines 277-462): one probe of
\* one host on one protocol, step by step.  The options --no-screenshots, --compression
\* and --max-content-size have their defaults.  The session retries inside a call of
\* session.get or session.head (lines 214-231); a call is one request of the probe. ----

\* What driver.get does: it returns, or raises TimeoutException or WebDriverException.
LoadOutcomes == {"loaded", "TimeoutException", "WebDriverException"}
\* What the browser holds afterwards: a page of the device, the browser's own
\* certificate warning, nothing; "dead" is a browser that has gone, every call of the
\* driver raises.
Browsers == {"page", "interstitial", "empty", "dead"}
\* What a request of the session does: a response with a status, or an exception.
Answers == {"200", "404", "Timeout", "ConnectionError"}
Responses == {"200", "404"}

driver_title(browser) == IF browser = "page" THEN <<"Metasys", "Login">> ELSE <<>>
driver_page_source(browser) ==
    IF browser = "page" THEN <<"Metasys">>
    ELSE IF browser = "interstitial" THEN <<"Your", "connection", "is", "not", "private">>
    ELSE <<>>
r_text(r) == IF r = "200" THEN <<"Desigo">> ELSE <<"Not", "Found">>
r_headers == << <<"Server", <<"nginx">>>> >>

\* lines 515-527: the result dictionary and the locals before the page load; the
\* placeholder of lines 509-513 has the same entries
new_probe ==
    [pc |-> "enter", works |-> FALSE, title |-> <<>>, screenshot_path |-> "",
     status_code |-> "", content_type |-> "", remote_body |-> <<>>,
     remote_headers |-> "", classified |-> <<>>, page_source |-> <<>>,
     r |-> "None", request_error |-> "", load |-> "", browser |-> "", sent |-> <<>>]

ProbeFrame ==
    UNCHANGED <<config, chrome, sink, files, storage, arguments, result, running, main_pc,
                hosts_to_process, submitted, pc, https_res, http_res, wb, processed_ips,
                runs, faults, start>>

ProbeAt(where) == probe # <<>> /\ probe.pc = where

\* lines 508-513: the early exit
test_protocol_enter ==
    /\ ProbeAt("enter")
    /\ probe' = [probe EXCEPT !.pc = IF running THEN "load" ELSE "returned"]
    /\ ProbeFrame

\* lines 532-612 (webscreengrab5.py, lines 307-343): the page load.  The handlers of
\* webscreengrabGemini.py read driver.page_source inside a try of their own.
selenium_load ==
    /\ ProbeAt("load")
    /\ \E outcome \in LoadOutcomes, browser \in Browsers :
           /\ outcome = "loaded" => browser # "dead"
           /\ probe' = [probe EXCEPT
                  !.pc = "screenshot",
                  !.load = outcome,
                  !.browser = browser,
                  !.works = (outcome = "loaded"),
                  !.title = IF outcome = "loaded" THEN driver_title(browser) ELSE <<>>,
                  !.page_source = IF script = Gemini THEN driver_page_source(browser)
                                  ELSE <<>>]
    /\ ProbeFrame

\* line 617: if (result["works"] or page_source) and not args.no_screenshots;
\* webscreengrab5.py, line 346: result["works"] or "Your connection is not private"
\* in driver.page_source, read outside any try
screenshot_wanted ==
    IF script = Gemini THEN probe.works \/ probe.page_source # <<>>
    ELSE probe.works \/ probe.browser = "interstitial"
screenshot_condition_raises ==
    script = V5 /\ ~probe.works /\ probe.browser = "dead"

\* lines 617-668 (webscreengrab5.py, lines 345-386): the screenshot, inside a try
take_screenshot ==
    /\ ProbeAt("screenshot")
    /\ IF screenshot_condition_raises
       THEN probe' = [probe EXCEPT !.pc = "raised"]
       ELSE \E saved \in BOOLEAN :
                /\ saved => screenshot_wanted /\ probe.browser # "dead"
                /\ probe' = [probe EXCEPT
                       !.pc = "fast_get",
                       !.screenshot_path = IF saved THEN "filename" ELSE ""]
    /\ ProbeFrame

\* r.raise_for_status(), lines 678, 685 and 689; webscreengrab5.py has no such call
raise_for_status(answer) == script = Gemini /\ answer = "404"
\* the call returned and the try block went on
succeeded(answer) == answer \in Responses /\ ~raise_for_status(answer)
\* line 680: except requests.exceptions.Timeout
escalates_any_error(answer) == ~succeeded(answer)
escalates(answer) == answer = "Timeout"

\* lines 675-701 (webscreengrab5.py, lines 392-394, 412-413): the fast GET
fast_get ==
    /\ ProbeAt("fast_get")
    /\ \E answer \in Answers :
           probe' = [probe EXCEPT
               !.sent = Append(@, <<"GET", "initial_timeout", answer>>),
               !.r = IF answer \in Responses THEN answer ELSE "None",
               !.request_error = IF succeeded(answer) THEN ""
                                 ELSE IF script = V5 THEN ""
                                 ELSE IF answer = "Timeout" THEN "Timeout"
                                 ELSE "RequestException",
               !.pc = IF ~succeeded(answer) /\ escalates(answer) THEN "head"
                      ELSE "process"]
    /\ ProbeFrame

\* lines 683-686 (webscreengrab5.py, lines 399-401): the HEAD request
head ==
    /\ ProbeAt("head")
    /\ \E answer \in Answers :
           probe' = [probe EXCEPT
               !.sent = Append(@, <<"HEAD", "timeout", answer>>),
               !.request_error = IF succeeded(answer) \/ script = V5 THEN @
                                 ELSE "HEAD/Slow GET failed",
               !.pc = IF succeeded(answer) THEN "slow_get" ELSE "process"]
    /\ ProbeFrame

\* lines 688-693 (webscreengrab5.py, lines 404-409): the GET with the full timeout
slow_get ==
    /\ ProbeAt("slow_get")
    /\ \E answer \in Answers :
           probe' = [probe EXCEPT
               !.sent = Append(@, <<"GET", "timeout", answer>>),
               !.r = IF answer \in Responses THEN answer ELSE "None",
               !.request_error = IF script = V5 \/ succeeded(answer) THEN ""
                                 ELSE "HEAD/Slow GET failed",
               !.pc = "process"]
    /\ ProbeFrame

\* lines 783-792: json.dumps of the headers that were kept
json_dumps(kept) == IF kept THEN "{\"Server\": \"nginx\"}" ELSE "{}"

\* lines 711-794: the response is processed, the page is classified, the headers
\* are turned into a string and the result is returned
process_response_gemini ==
    LET fetched == probe.r # "None" /\ probe.request_error = ""
        keeps == fetched /\ args.store_headers # "none"
    IN  [probe EXCEPT
            !.pc = "returned",
            !.status_code = IF fetched THEN probe.r
                            ELSE IF probe.request_error # "" THEN "Error: " \o probe.request_error
                            ELSE "",
            !.content_type = IF keeps THEN "text/html" ELSE "",
            !.remote_body = IF fetched THEN r_text(probe.r) ELSE <<>>,
            !.remote_headers = IF args.store_headers = "none" THEN ""
                               ELSE json_dumps(keeps),
            !.classified =
                IF fetched
                THEN <<probe.title,
                       IF probe.page_source # <<>> THEN probe.page_source
                       ELSE r_text(probe.r),
                       IF keeps THEN r_headers ELSE <<>>>>
                ELSE IF probe.works \/ probe.page_source # <<>>
                THEN <<probe.title, probe.page_source, <<>>>>
                ELSE <<>>]

\* webscreengrab5.py, lines 421-461
process_response_v5 ==
    LET fetched == probe.r # "None"
    IN  [probe EXCEPT
            !.pc = "returned",
            !.status_code = IF fetched THEN probe.r ELSE "",
            !.content_type = IF fetched /\ args.store_headers # "none" THEN "text/html"
                             ELSE "",
            !.remote_body = IF fetched THEN r_text(probe.r) ELSE <<>>,
            !.remote_headers = IF fetched /\ args.store_headers = "all"
                               THEN "{'Server': 'nginx'}" ELSE "",
            !.classified =
                IF fetched
                THEN <<probe.title, r_text(probe.r),
                       IF args.store_headers = "all" THEN r_headers ELSE <<>>>>
                ELSE <<>>]

process_response ==
    /\ ProbeAt("process")
    /\ probe' = IF script = Gemini THEN process_response_gemini ELSE process_response_v5
    /\ ProbeFrame

NextProbe ==
    \/ test_protocol_enter
    \/ selenium_load
    \/ take_screenshot
    \/ fast_get
    \/ head
    \/ slow_get
    \/ process_response

InitProbe ==
    /\ script \in {Gemini, V5}
    /\ network = "up"
    /\ ip_file = <<>>
    /\ args \in {a \in ArgSets : a.concurrent = 1 /\ ~a.resume /\ a.jitter = 1}
    /\ running \in BOOLEAN
    /\ main_pc = "init" /\ hosts_to_process = <<>> /\ submitted = 0 /\ pc = <<>>
    /\ https_res = <<>> /\ http_res = <<>> /\ wb = <<>> /\ processed_ips = {}
    /\ runs = 0 /\ faults = 0 /\ start = NoStart
    /\ InitStorage
    /\ xlsx = EmptyBag /\ backups = {} /\ xml = EmptyBag /\ csv = EmptyBag /\ json = EmptyBag
    /\ progress = EmptyBag
    /\ arguments = <<>> /\ result = <<>>
    /\ probe = new_probe

SpecProbe == InitProbe /\ [][NextProbe]_vars

\* ---- the Result Sink and the Progress Store lock by lock: every "with <lock>:" is
\* a step that waits for the lock and takes it; the statements under the lock are a
\* second step, which ends with the release ----

\* the CSV file
EmptyFile == [exists |-> TRUE, lines |-> <<>>]
HeaderOnly == [exists |-> TRUE, lines |-> <<Header>>]
\* lines 1119 and 1139: not os.path.exists(full_path) or os.path.getsize(full_path) == 0;
\* webscreengrab5.py, line 690, tests the existence only
needs_header(file) ==
    IF script = Gemini THEN ~file.exists \/ file.lines = <<>> ELSE ~file.exists

\* init_csv, lines 1119-1128, the statements under csv_lock: the header is written
\* to a file that needs it.  When open() fails the file is as before, when the write
\* fails after open(.., "w") it is empty; the exception is logged.
write_header(file, fail) ==
    IF ~needs_header(file) THEN {file}
    ELSE IF fail THEN {file, EmptyFile}
    ELSE {HeaderOnly}

\* a row written by open(full_path, "w") in place of "a"
write_row_truncating(file, host) == [exists |-> TRUE, lines |-> <<host>>]

\* lines 1143-1167, open(full_path, "a") and writer.writerow: one more line
write_row(file, host) == [exists |-> TRUE, lines |-> Append(file.lines, host)]

\* lines 1717-1720: main calls the init functions before any worker runs, so each
\* finds its lock free.  In webscreengrab5.py (690-694) a failure of init_csv is not
\* caught and ends the run before the first host.
main_setup_sink ==
    /\ main_pc = "init"
    /\ main_begin
    /\ \E fail \in (IF script = Gemini THEN BOOLEAN ELSE {FALSE}) :
           csv_file' \in write_header(csv_file, fail)
    /\ UNCHANGED lock

\* the position of a task at a "with <lock>:" statement, the lock it names and the
\* position under the lock: init_excel (814), append_excel_row (885), append_xml_entry
\* (1012), append_csv_row (1135), init_csv (1117), append_json_entry (1198),
\* process_host (1512), save_processed_ip (1373)
LockOf ==
    [init_excel |-> "excel_lock", excel |-> "excel_lock", xml |-> "xml_lock",
     csv |-> "csv_lock", init_csv |-> "csv_lock", json |-> "json_lock",
     mark |-> "processed_lock", save_processed_ip |-> "processed_lock"]
Under ==
    [init_excel |-> "init_excel_locked", excel |-> "excel_locked", xml |-> "xml_locked",
     csv |-> "csv_locked", init_csv |-> "init_csv_locked", json |-> "json_locked",
     mark |-> "mark_locked", save_processed_ip |-> "save_processed_ip_locked"]

\* a lock that is handed to whoever asks for it
acquire_unchecked(i, l) == lock' = [lock EXCEPT ![l] = i]

\* threading.Lock.acquire(): blocks while some thread holds the lock, the calling
\* thread included
acquire(i, l) ==
    /\ lock[l] = Free
    /\ lock' = [lock EXCEPT ![l] = i]

\* threading.Lock.release(), at the end of the with-block, also when it is left by
\* an exception
release(i, l) == lock' = [lock EXCEPT ![l] = Free]

\* what no step under a lock writes
SinkFrame ==
    UNCHANGED <<config, chrome, storage, call, running, main_pc, hosts_to_process, submitted,
                runs, start>>

\* "with <lock>:" of the function the task is in
with_lock(i) ==
    /\ i \in Tasks
    /\ pc[i] \in DOMAIN LockOf
    /\ acquire(i, LockOf[pc[i]])
    /\ Goto(i, Under[pc[i]])
    /\ UNCHANGED <<https_res, http_res, wb, processed_ips, files, csv_file, faults>>
    /\ SinkFrame

\* init_excel, lines 815-879: load the file into a workbook object of this call
init_excel_locked(i) ==
    /\ At(i, "init_excel_locked")
    /\ wb' = [wb EXCEPT ![i] = xlsx]
    /\ release(i, "excel_lock")
    /\ Goto(i, "excel")
    /\ UNCHANGED <<https_res, http_res, processed_ips, files, csv_file, faults>>
    /\ SinkFrame

\* append_excel_row, lines 886-986: add the row to the workbook object passed in and
\* save it over the file
append_excel_row_locked(i) ==
    /\ At(i, "excel_locked")
    /\ \E fail \in MayFail :
         /\ xlsx' = IF fail THEN xlsx ELSE wb_save(Put(wb[i], row_data(i)), xlsx)
         /\ backups' = save_backup(Put(wb[i], row_data(i)), fail)
         /\ Charge(fail)
    /\ wb' = [wb EXCEPT ![i] = Put(wb[i], row_data(i))]
    /\ release(i, "excel_lock")
    /\ Goto(i, "xml")
    /\ UNCHANGED <<https_res, http_res, processed_ips, xml, csv, json, progress, csv_file>>
    /\ SinkFrame

\* append_xml_entry, lines 1013-1110: parse the file, add the entry, replace the
\* file; the AttributeError of ET.CDATA leaves the with-block and the function
append_xml_entry_locked(i) ==
    /\ At(i, "xml_locked")
    /\ \E fail \in MayFail :
         /\ xml_raises(i) => ~fail
         /\ xml' = IF fail \/ xml_raises(i) THEN xml ELSE Put(xml, row_data(i))
         /\ Charge(fail)
    /\ release(i, "xml_lock")
    /\ Goto(i, IF xml_raises(i) THEN "error" ELSE "csv")
    /\ UNCHANGED <<https_res, http_res, wb, processed_ips, xlsx, backups, csv, json,
                   progress, csv_file>>
    /\ SinkFrame

\* append_csv_row, lines 1136-1141: with the lock held, a file that needs the header
\* makes it call init_csv, whose first statement is "with csv_lock:" (1117);
\* webscreengrab5.py (700-702) opens the file at once
append_csv_row_locked(i) ==
    /\ At(i, "csv_locked")
    /\ Goto(i, IF script = Gemini /\ needs_header(csv_file) THEN "init_csv" ELSE "csv_write")
    /\ UNCHANGED <<https_res, http_res, wb, processed_ips, files, sink, faults>>
    /\ SinkFrame

\* the writes to the CSV file: under the lock of init_csv, the header (1119-1128), and
\* then, or at once, the row of append_csv_row (1143-1170); each with-block ends with
\* a release
csv_write(i) ==
    /\ i \in Tasks
    /\ pc[i] \in {"init_csv_locked", "csv_write"}
    /\ \E fail \in MayFail :
         /\ IF pc[i] = "init_csv_locked"
            THEN /\ csv_file' \in write_header(csv_file, fail)
                 /\ csv' = csv
            ELSE /\ csv_file' = IF fail THEN csv_file
                                ELSE write_row(csv_file, hosts_to_process[i])
                 /\ csv' = IF fail THEN csv ELSE Put(csv, row_data(i))
         /\ Charge(fail)
    /\ release(i, "csv_lock")
    /\ Goto(i, IF pc[i] = "init_csv_locked" THEN "csv_write" ELSE "json")
    /\ UNCHANGED <<https_res, http_res, wb, processed_ips, xlsx, backups, xml, json, progress>>
    /\ SinkFrame

\* append_json_entry, lines 1199-1303; then line 1510, "if progress_file:"
append_json_entry_locked(i) ==
    /\ At(i, "json_locked")
    /\ \E fail \in MayFail :
         /\ json' = IF fail THEN json ELSE Put(json, row_data(i))
         /\ Charge(fail)
    /\ release(i, "json_lock")
    /\ Goto(i, IF args.resume THEN "mark" ELSE "ok")
    /\ UNCHANGED <<https_res, http_res, wb, processed_ips, xlsx, backups, xml, csv,
                   progress, csv_file>>
    /\ SinkFrame

\* line 1513: processed_ips.add(host); line 1515 calls save_processed_ip
processed_ips_add(i) ==
    /\ At(i, "mark_locked")
    /\ processed_ips' = processed_ips \cup {hosts_to_process[i]}
    /\ release(i, "processed_lock")
    /\ Goto(i, "save_processed_ip")
    /\ UNCHANGED <<https_res, http_res, wb, files, csv_file, faults>>
    /\ SinkFrame

\* save_processed_ip, lines 1374-1380: append the line; an exception is logged
save_processed_ip_locked(i) ==
    /\ At(i, "save_processed_ip_locked")
    /\ \E fail \in MayFail :
         /\ progress' = save_processed_ip(hosts_to_process[i], fail)
         /\ Charge(fail)
    /\ release(i, "processed_lock")
    /\ Goto(i, "ok")
    /\ UNCHANGED <<https_res, http_res, wb, processed_ips, xlsx, backups, xml, csv, json,
                   csv_file>>
    /\ SinkFrame

process_host_sink(i) ==
    \/ executor_run(i)
    \/ main_sequential(i)
    \/ process_host_https(i)
    \/ process_host_https_check(i)
    \/ process_host_http(i)
    \/ process_host_http_check(i)
    \/ with_lock(i)
    \/ init_excel_locked(i)
    \/ append_excel_row_locked(i)
    \/ append_xml_entry_locked(i)
    \/ append_csv_row_locked(i)
    \/ csv_write(i)
    \/ append_json_entry_locked(i)
    \/ processed_ips_add(i)
    \/ save_processed_ip_locked(i)

\* the steps of the program's threads
RunSink ==
    \/ main_setup_sink
    \/ main_submit
    \/ main_pool_done
    \/ main_sequential_done
    \/ \E i \in TaskIds : process_host_sink(i)

NextSink ==
    \/ RunSink
    \/ signal_handler

\* a run on an input file with one host a line, without --jitter
InitSink ==
    /\ script \in {Gemini, V5}
    /\ network = "up"
    /\ ip_file = [k \in 1..MaxHosts |-> k]
    /\ args \in {a \in ArgSets : a.jitter = 0 /\ a.store_headers # "none"}
    /\ InitMemory
    /\ NoCall
    /\ xlsx = EmptyBag /\ backups = {} /\ xml = EmptyBag /\ csv = EmptyBag /\ json = EmptyBag
    /\ progress = EmptyBag

SpecSink == InitSink /\ [][NextSink]_vars

\* the threads are scheduled: a step of the program that stays possible is taken; a
\* signal may never come
FairSink == InitSink /\ [][NextSink]_vars /\ WF_vars(RunSink)

\* ---- init_csv and append_csv_row called one after the other, in any order, by one
\* thread; a call may fail at open() or at the write ----
MaxCsvLines == 4

\* lines 1112-1128.  In webscreengrab5.py (686-694) the exception leaves init_csv;
\* the file is the same.
init_csv ==
    /\ lock["csv_lock"] = Free
    /\ \E fail \in MayFail :
         /\ csv_file' \in write_header(csv_file, fail)
         /\ Charge(fail)
    /\ UNCHANGED <<config, chrome, storage, call, lock, files, running, main_pc, hosts_to_process,
                   submitted, pc, https_res, http_res, wb, processed_ips, runs, start>>

\* lines 1131-1170: a file that needs the header makes the call wait, in init_csv, for
\* the lock it holds; otherwise the row is written at the end of the file.  An
\* exception is logged; in webscreengrab5.py (696-724) it leaves the function.
append_csv_row_call ==
    /\ lock["csv_lock"] = Free
    /\ Len(csv_file.lines) < MaxCsvLines
    /\ \E host \in Hosts, fail \in MayFail :
         /\ (script = Gemini /\ needs_header(csv_file)) => ~fail
         /\ IF script = Gemini /\ needs_header(csv_file)
            THEN /\ lock' = [lock EXCEPT !["csv_lock"] = 1]
                 /\ csv_file' = csv_file
            ELSE /\ lock' = lock
                 /\ csv_file' = IF fail THEN csv_file ELSE write_row(csv_file, host)
         /\ Charge(fail)
    /\ UNCHANGED <<config, chrome, storage, call, files, running, main_pc, hosts_to_process,
                   submitted, pc, https_res, http_res, wb, processed_ips, runs, start>>

NextCsv ==
    \/ init_csv
    \/ append_csv_row_call

InitCsv ==
    /\ script \in {Gemini, V5}
    /\ network = "up"
    /\ ip_file = <<>>
    /\ args \in {a \in ArgSets : a.concurrent = 1 /\ ~a.resume /\ a.jitter = 0
                                  /\ a.store_headers = "essential"}
    /\ InitMemory
    /\ NoCall
    /\ xlsx = EmptyBag /\ backups = {} /\ xml = EmptyBag /\ csv = EmptyBag /\ json = EmptyBag
    /\ progress = EmptyBag

SpecCsv == InitCsv /\ [][NextCsv]_vars

\* ---- the browser of each call of process_host: setup_driver (233-283) and the
\* finally block (1527-1548) step by step.  The appends and the progress line (lines
\* 1496-1515), which do not touch the driver, are one step here ----

\* a browser that runs: "created" inside setup_driver, "held" by the local variable
\* driver of process_host
Live == {"created", "held"}
\* the finally block of a call that ends this way
Finally == [ok |-> "finally ok", error |-> "finally error", raised |-> "finally raised"]
InFinally == {Finally[e] : e \in Ended}
Ending(where) == IF where \in Ended THEN Finally[where] ELSE where
Becomes(i, what) == chrome' = [chrome EXCEPT ![i] = what]

DriverFrame ==
    UNCHANGED <<config, sink, storage, call, running, main_pc, hosts_to_process, submitted,
                https_res, http_res, wb, processed_ips, files, runs, start>>

\* lines 1387-1392 (webscreengrab5.py, 866-870): driver = None and the flag check
\* on entry, before the try block
process_host_enter_driver(i) ==
    /\ Goto(i, IF ~running THEN "error" ELSE "webdriver")
    /\ UNCHANGED <<chrome, faults>>
    /\ DriverFrame

executor_run_driver(i) ==
    /\ At(i, "queued")
    /\ main_pc \in {"submit", "poll", "join"}
    /\ \A j \in 1..(i - 1) : pc[j] # "queued"
    /\ Cardinality(Active) < num_workers
    /\ process_host_enter_driver(i)

main_sequential_driver(i) ==
    /\ At(i, "new")
    /\ main_pc = "seq"
    /\ running
    /\ \A j \in 1..(i - 1) : pc[j] \in {"ok", "error"}
    /\ process_host_enter_driver(i)

\* setup_driver, lines 266-273: webdriver.Chrome(...) starts the browser; when it
\* raises, sys.exit(1) ends the call of process_host, whose driver is still None
webdriver_Chrome(i) ==
    /\ At(i, "webdriver")
    /\ \E fail \in MayFail :
         /\ Charge(fail)
         /\ Goto(i, IF fail THEN "raised" ELSE "configure")
         /\ Becomes(i, IF fail THEN chrome[i] ELSE "created")
    /\ DriverFrame

\* setup_driver, lines 274-283: the time-outs and the CDP command are sent to the
\* browser that runs; when one of them raises, "except Exception" calls sys.exit(1)
\* without driver.quit().  Otherwise line 1406 binds the driver.
setup_driver_configure(i) ==
    /\ At(i, "configure")
    /\ \E fail \in MayFail :
         /\ Charge(fail)
         /\ Goto(i, IF fail THEN "raised" ELSE "https")
         /\ Becomes(i, IF fail THEN chrome[i] ELSE "held")
    /\ DriverFrame

\* lines 1417 and 1420: a return inside the try block enters the finally block
process_host_checks_driver(i) ==
    /\ \/ At(i, "https_check") /\ Goto(i, Ending(after_https))
       \/ At(i, "http_check") /\ Goto(i, Ending(after_http))
    /\ UNCHANGED <<chrome, faults>>
    /\ DriverFrame

\* lines 1423-1518: merge, appends, progress line, return row_data
process_host_record(i) ==
    /\ At(i, "init_excel")
    /\ Goto(i, Finally.ok)
    /\ UNCHANGED <<chrome, faults>>
    /\ DriverFrame

\* lines 1527-1548 (webscreengrab5.py, 968-976): driver.quit() in try/except; an
\* exception of quit() is logged (1534) or passed over
process_host_finally(i) ==
    /\ i \in Tasks /\ pc[i] \in InFinally
    /\ \E fail \in MayFail :
         /\ Charge(fail)
         /\ Becomes(i, IF fail THEN "quit failed" ELSE "quit")
    /\ Goto(i, CHOOSE e \in Ended : Finally[e] = pc[i])
    /\ DriverFrame

\* signal_handler, lines 204-212.  In the sequential loop SystemExit is raised in
\* the statement of process_host that the signal found: inside the try block it runs
\* the finally block, which quits the driver that process_host holds; inside
\* setup_driver the browser is bound to no variable of process_host, and inside the
\* finally block that block is left.
signal_handler_driver ==
    /\ running
    /\ main_pc \in {"submit", "poll", "seq"}
    /\ running' = FALSE
    /\ IF main_pc = "seq"
       THEN /\ chrome' = [i \in TaskIds |->
                            IF i \in Active /\ chrome[i] = "held" /\ pc[i] \notin InFinally
                            THEN "quit" ELSE chrome[i]]
            /\ main_pc' = "ended"
            /\ hosts_to_process' = <<>>
            /\ submitted' = 0
            /\ pc' = <<>> /\ https_res' = <<>> /\ http_res' = <<>> /\ wb' = <<>>
            /\ processed_ips' = {}
            /\ lock' = NoHolders
            /\ UNCHANGED <<config, storage, call, files, csv_file, runs, faults, start>>
       ELSE /\ main_pc' = "join"
            /\ UNCHANGED <<config, chrome, sink, storage, call, hosts_to_process, submitted, pc,
                           https_res, http_res, wb, processed_ips, files, runs, faults, start>>

process_host_driver(i) ==
    \/ executor_run_driver(i)
    \/ main_sequential_driver(i)
    \/ webdriver_Chrome(i)
    \/ setup_driver_configure(i)
    \/ process_host_https(i)
    \/ process_host_http(i)
    \/ process_host_checks_driver(i)
    \/ process_host_record(i)
    \/ process_host_finally(i)

NextDriver ==
    \/ main_setup
    \/ main_submit
    \/ main_pool_done
    \/ main_sequential_done
    \/ signal_handler_driver
    \/ \E i \in TaskIds : process_host_driver(i)

\* a run on an input file with one host a line, without --jitter and --resume
InitDriver ==
    /\ script \in {Gemini, V5}
    /\ network = "up"
    /\ ip_file = [k \in 1..MaxHosts |-> k]
    /\ args \in {a \in ArgSets : a.jitter = 0 /\ ~a.resume /\ a.store_headers = "essential"}
    /\ InitMemory
    /\ NoCall
    /\ xlsx = EmptyBag /\ backups = {} /\ xml = EmptyBag /\ csv = EmptyBag /\ json = EmptyBag
    /\ progress = EmptyBag

SpecDriver == InitDriver /\ [][NextDriver]_vars

\* ======================= properties =======================

OutputFiles == <<xlsx, xml, csv, json>>
StartFiles == <<start.xlsx, start.xml, start.csv, start.json>>

\* the records of host h in a file
RowsOf(file, h) == {r \in BagToSet(file) : r.ip_host = h}
RowCount(file, h) ==
    IF RowsOf(file, h) = {} THEN 0
    ELSE BagCardinality([r \in RowsOf(file, h) |-> file[r]])
HasRow(file, h) == RowsOf(file, h) # {}
InAll(h) == \A k \in 1..4 : HasRow(OutputFiles[k], h)
InNone(h) == \A k \in 1..4 : ~HasRow(OutputFiles[k], h)
Marked(h) == Copies(progress, h) > 0

\* the append calls of task i have all returned
AppendsReturned(i) == pc[i] \in {"mark", "ok"}

\* C1: when no I/O call failed, every host whose four append calls returned has a
\* row in the workbook, the XML, the CSV and the JSON file, under any interleaving
\* of the workers.
C1_AppendsLoseNoRow ==
    faults = 0 =>
        \A i \in Tasks : AppendsReturned(i) => InAll(hosts_to_process[i])

\* C2: within one run no output file gains more than one record for any host,
\* whatever the input lines (duplicates included), the concurrency and the interleaving.
C2_AtMostOneRecordPerRun ==
    \A h \in Hosts : \A k \in 1..4 :
        RowCount(OutputFiles[k], h) <= RowCount(StartFiles[k], h) + 1

\* C2 witness: the input file names a host on two lines and that host's record has
\* been appended to all four files.
C2_Witness ==
    \E a, b \in 1..Len(ip_file) :
        /\ a < b
        /\ ip_file[a] = ip_file[b]
        /\ ip_file[a] # Blank
        /\ InAll(ip_file[a])

\* C3: every host in the progress file, or put into the in-memory processed set by
\* this run, has a row in all four output files.
C3_MarkedImpliesRecorded ==
    \A h \in Hosts :
        (Marked(h) \/ h \in processed_ips \ start.skip) => InAll(h)

\* the hosts the progress file listed when the run started
Listed == {l \in BagToSet(start.progress) : l # Blank}

\* what C4 says of a run: the skip-set is exactly the non-blank lines of the progress
\* file, the work list is the set of distinct hosts of the input minus that set,
\* without repetition, and no listed host gets a task or a new record
ResumeSkipsListed ==
    /\ start.skip = Listed
    /\ main_pc \in {"submit", "poll", "join", "seq"} =>
          /\ Range(hosts_to_process) = (Range(ip_file) \ {Blank}) \ Listed
          /\ Cardinality(Range(hosts_to_process)) = Len(hosts_to_process)
    /\ \A h \in Listed : \A k \in 1..4 :
          RowCount(OutputFiles[k], h) = RowCount(StartFiles[k], h)

C5_NoPartialRecordAfterShutdown ==
    (main_pc = "ended" /\ ~running /\ faults = 0 /\ args.store_headers # "all") =>
        \A h \in Hosts :
            \/ InAll(h) /\ (args.resume => Marked(h))
            \/ InNone(h) /\ ~Marked(h)

C7_NothingStartsAfterStop ==
    [][\A i \in DOMAIN pc \cap DOMAIN pc' :
          (~running /\ pc[i] \in {"new", "queued"} /\ pc'[i] # pc[i]) =>
             /\ pc[i] = "queued"
             /\ pc'[i] = "error"
             /\ files' = files
             /\ https_res' = https_res /\ http_res' = http_res]_vars

\* C7 witness: without jitter, a task taken from the queue after the flag fell has
\* returned at the entry check.
C7_Witness ==
    /\ ~running /\ args.jitter = 0
    /\ \E i \in Tasks : pc[i] = "error" /\ https_res[i] = "none"

\* C8: no record in any output file holds the placeholder outcome of a probe that
\* was skipped because the flag was down when test_protocol was entered.
C8_NoHalfFormedRecord ==
    \A k \in 1..4 : \A r \in BagToSet(OutputFiles[k]) :
        r.https = "probed" /\ r.http = "probed"

Appended(pre, entry) ==
    Whole(Append(IF pre.state = "whole" THEN pre.results ELSE <<>>, entry))

PreOrAppended(f) ==
    disk[f][full_path] \in {latest[f].pre, Appended(latest[f].pre, latest[f].entry)}

\* C10 as stated: from the start of an append on (through its steps, after it returns,
\* after a kill), the XML and the JSON file hold the content the append found or that
\* content with the entry appended.
C10_KillLeavesPreOrAppended ==
    \A f \in Formats : latest[f].active => PreOrAppended(f)

\* C10 amended: the same, for an append whose load found no file, an empty file, or
\* a file that it read and parsed without an error.
C10_KillLeavesPreOrAppendedWhenLoaded ==
    \A f \in Formats : (latest[f].active /\ latest[f].loaded) => PreOrAppended(f)

\* C10 witness: the process was killed while the temporary file held a partial
\* document, and the persisted file still holds the records it had before the append.
C10_Witness ==
    /\ writer.pc = "dead"
    /\ \E f \in Formats :
         /\ latest[f].active /\ latest[f].loaded
         /\ latest[f].pre.state = "whole" /\ latest[f].pre.results # <<>>
         /\ disk[f]["temp_file"].state = "partial"
         /\ disk[f][full_path] = latest[f].pre

\* C11: when the XML or JSON file failed to parse at the load of an append, its
\* content is kept: it is still the persisted file or it is the backup file.
C11_CorruptFileKeptAside ==
    \A f \in Formats :
        (latest[f].active /\ latest[f].pre.state = "partial") =>
            Partial \in {disk[f][full_path], disk[f][backup_path]}

\* C12: in a run with one worker, the row of every host whose append_excel_row
\* returned is in the workbook file or, when the save failed, in a backup workbook.
C12_RowSavedOrBackedUp ==
    args.concurrent = 1 =>
        \A i \in Tasks :
            pc[i] \in {"xml", "csv", "json", "mark", "ok"} =>
                \/ Copies(xlsx, row_data(i)) > 0
                \/ \E b \in backups : Copies(b, row_data(i)) > 0

\* ---- the merge of the two outcomes ----
Merged == result # <<>> /\ Len(arguments) = 2
IsGeneric(b) == b[1] = "Generic"
\* An outcome qualifies when it loaded and has a screenshot or a classification
\* that is neither "Unknown" nor generic.
Qualifies(o) ==
    o.works /\ (o.screenshot_path # "" \/ (o.bms_type # <<"Unknown">> /\ ~IsGeneric(o.bms_type)))
TakenFrom(o) ==
    /\ result[1].chosen_title = o.title
    /\ result[1].screenshot_path = o.screenshot_path
    /\ result[1].bms_type = o.bms_type
\* 2 for a label that is neither "Unknown" nor generic, 1 for a generic one, 0 for "Unknown"
Specificity(b) == IF b = <<"Unknown">> THEN 0 ELSE IF IsGeneric(b) THEN 1 ELSE 2

\* C13: when one of the two outcomes qualifies, the title, the screenshot and the
\* classification of the merged record are all those of one qualifying outcome.
C13_MergedFromQualifyingOutcome ==
    (Merged /\ (Qualifies(arguments[1]) \/ Qualifies(arguments[2]))) =>
        \E k \in 1..2 : Qualifies(arguments[k]) /\ TakenFrom(arguments[k])

\* C14: when neither outcome qualifies, the merged classification is one of the
\* two classifications and none of the two is more specific; the merged title is
\* empty only when both titles are.
C14_FallbackMostSpecific ==
    (Merged /\ ~Qualifies(arguments[1]) /\ ~Qualifies(arguments[2])) =>
        /\ result[1].bms_type \in {arguments[1].bms_type, arguments[2].bms_type}
        /\ \A k \in 1..2 :
               Specificity(result[1].bms_type) >= Specificity(arguments[k].bms_type)
        /\ result[1].chosen_title \in {arguments[1].title, arguments[2].title}
        /\ (result[1].chosen_title = "" => \A k \in 1..2 : arguments[k].title = "")

\* The first outcome loaded without a screenshot and with "Unknown", the second did
\* not load and is classified "Siemens": the merged record is "Siemens" without a
\* screenshot and with the title of the first.
C14_Witness ==
    /\ Merged
    /\ arguments[1].works /\ arguments[1].screenshot_path = ""
    /\ arguments[1].bms_type = <<"Unknown">> /\ arguments[1].title # ""
    /\ ~arguments[2].works /\ arguments[2].screenshot_path = ""
    /\ arguments[2].bms_type = <<"Siemens">>
    /\ result[1].bms_type = <<"Siemens">>
    /\ result[1].screenshot_path = ""
    /\ result[1].chosen_title = arguments[1].title

\* C15: when exactly one of the two outcomes loaded, the merged title and the
\* merged screenshot are those of the outcome that loaded.
C15_TitleAndScreenshotFromLoadedSide ==
    \A k \in 1..2 :
        (Merged /\ arguments[k].works /\ ~arguments[3 - k].works) =>
            /\ result[1].chosen_title = arguments[k].title
            /\ result[1].screenshot_path = arguments[k].screenshot_path

\* ---- the classifier ----
Calls == 1..Len(result)
title_of(k) == arguments[k][1]
body_of(k) == arguments[k][2]
headers_of(k) == arguments[k][3]
KeywordsOf(entry) == {entry.keywords[j] : j \in 1..Len(entry.keywords)}
Signatures == {BMS_SIGNATURES_SCORED[j] : j \in 1..Len(BMS_SIGNATURES_SCORED)}
CommonKeywords == {COMMON_BMS_KEYWORDS_SCORED[j] : j \in 1..Len(COMMON_BMS_KEYWORDS_SCORED)}
RegexClues == {REGEX_CLUES[j] : j \in 1..Len(REGEX_CLUES)}
Occurs(keyword, text) == contains(lower(text), lower(keyword))

TitleVendors(k) ==
    {e.system_name : e \in {s \in Signatures :
                               \E kw \in KeywordsOf(s) : Occurs(kw[1], title_of(k))}}
TitleScores(k) ==
    {kw[2] : kw \in {w \in UNION {KeywordsOf(s) : s \in Signatures} :
                        Occurs(w[1], title_of(k))}}
\* The scores of the generic keywords in the body of call k.
BodyGenericScores(k) ==
    {kw[2] : kw \in {w \in CommonKeywords : Occurs(w[1], body_of(k))}}
\* Besides the title's vendor keywords, call k matches generic keywords of the body
\* and nothing else.
OnlyGenericBesidesTitle(k) ==
    /\ headers_of(k) = <<>>
    /\ BodyGenericScores(k) # {}
    /\ \A s \in Signatures : \A kw \in KeywordsOf(s) : ~Occurs(kw[1], body_of(k))
    /\ \A c \in RegexClues : \A p \in c.pattern : ~contains(lower(body_of(k)), p)
    /\ \A kw \in CommonKeywords : ~Occurs(kw[1], title_of(k))

\* C17 as stated: a vendor keyword in the title and only generic keywords in the
\* body give the name of a vendor of the title.
C17_VendorTitleBeatsGenericBody ==
    \A k \in Calls :
        (TitleVendors(k) # {} /\ OnlyGenericBesidesTitle(k)) =>
            result[k] \in TitleVendors(k)

\* C17: a vendor keyword in the title whose score, raised by the title bonus of 1,
\* is not below the score of any generic keyword of the body gives the name of a
\* vendor of the title.
C17_VendorTitleBeatsWeakerGenericBody ==
    \A k \in Calls :
        (/\ OnlyGenericBesidesTitle(k)
         /\ \E s \in TitleScores(k) : \A g \in BodyGenericScores(k) : g <= s + 1) =>
            result[k] \in TitleVendors(k)

\* The title "Metasys Login" with the body "BACnet" is classified "Johnson Controls".
C17_Witness ==
    \E k \in Calls :
        /\ title_of(k) = <<"Metasys", "Login">>
        /\ body_of(k) = <<"BACnet">>
        /\ headers_of(k) = <<>>
        /\ result[k] = <<"Johnson", "Controls">>

\* The names of call k that reached the best score.
Tied(k) == top_candidates(collect_matches(title_of(k), body_of(k), headers_of(k)))
Matched(k) == collect_matches(title_of(k), body_of(k), headers_of(k)) # {}
Smallest(names) == CHOOSE a \in names : \A b \in names : name_index(a) <= name_index(b)
VendorNames(names) == names \cap system_names
StrongNames(names) ==
    {n \in names : \E term \in strong_terms : contains(lower(n), term)}
GenericNames(names) ==
    {n \in names : Len(n) >= 3 /\ SubSeq(n, 1, 3) = <<"Generic", "BMS", "(">>}

\* C18: of the names tied at the best score the classifier returns the smallest
\* vendor name; without one the smallest name with a strong term; without one the
\* smallest name of the form "Generic BMS (...)"; without one the smallest name.
C18_TieBreakOrder ==
    \A k \in Calls :
        Matched(k) =>
            LET tied == Tied(k)
            IN  result[k] =
                    IF VendorNames(tied) # {} THEN Smallest(VendorNames(tied))
                    ELSE IF StrongNames(tied) # {} THEN Smallest(StrongNames(tied))
                    ELSE IF GenericNames(tied) # {} THEN Smallest(GenericNames(tied))
                    ELSE Smallest(tied)

\* A generic keyword and a login clue are tied at the best score: the generic name
\* is returned.
C18_Witness ==
    \E k \in Calls :
        /\ Matched(k)
        /\ VendorNames(Tied(k)) = {}
        /\ GenericNames(Tied(k)) # {}
        /\ Tied(k) \ GenericNames(Tied(k)) # {}
        /\ result[k] = Smallest(GenericNames(Tied(k)))

\* No keyword of a vendor, no generic keyword, no clue of the body and no clue of the
\* headers occurs in the texts of call k.
NothingOccurs(k) ==
    /\ \A s \in Signatures : \A kw \in KeywordsOf(s) :
           /\ ~Occurs(kw[1], title_of(k))
           /\ ~Occurs(kw[1], body_of(k))
           /\ ~Occurs(kw[1], str_headers(headers_of(k)))
    /\ \A kw \in CommonKeywords :
           /\ ~Occurs(kw[1], title_of(k))
           /\ ~Occurs(kw[1], body_of(k))
           /\ ~Occurs(kw[1], str_headers(headers_of(k)))
    /\ \A c \in RegexClues : \A p \in c.pattern : ~contains(lower(body_of(k)), p)
    /\ header_clues(headers_of(k)) = {}

\* C19: a call in whose texts nothing occurs returns "Unknown".
C19_NothingOccursGivesUnknown ==
    \A k \in Calls : NothingOccurs(k) => result[k] = <<"Unknown">>

\* A page with a body in which nothing occurs, and a page with three empty texts.
C19_Witness ==
    /\ Len(result) = 2
    /\ title_of(1) = <<>> /\ body_of(1) = <<"Welcome">> /\ headers_of(1) = <<>>
    /\ title_of(2) = <<>> /\ body_of(2) = <<>> /\ headers_of(2) = <<>>
    /\ result[1] = <<"Unknown">>
    /\ result[2] = <<"Unknown">>

\* ---- a run on hosts that are down ----
DistinctHosts == {ip_file[k] : k \in 1..Len(ip_file)} \ {Blank}
\* the run went through the whole list: no signal, no failed I/O call
WentThrough == main_pc = "ended" /\ running /\ faults = 0
NotLoadedUnknown(r) ==
    /\ ~failed_result(r.https).works
    /\ ~failed_result(r.http).works
    /\ merge(failed_result(r.https), failed_result(r.http)).bms_type = <<"Unknown">>

\* C20: after a run on an input file with duplicate lines whose hosts are all down,
\* each of the four output files holds exactly one record of every distinct host,
\* with both protocols not loaded and the classification "Unknown".
C20_UnreachableHostsRecordedOnceUnknown ==
    WentThrough =>
        \A h \in DistinctHosts : \A k \in 1..4 :
            /\ RowCount(OutputFiles[k], h) = 1
            /\ \A r \in RowsOf(OutputFiles[k], h) : NotLoadedUnknown(r)

\* ---- the probe ----
Returned == ProbeAt("returned") /\ probe.load # ""
LoadFailed == probe.load \in LoadOutcomes \ {"loaded"}
\* the answer to the latest request of the probe
LastAnswer == probe.sent[Len(probe.sent)][3]
FetchFailed == probe.sent # <<>> /\ LastAnswer \notin Responses
\* the metadata entries are as empty as lines 515-527 made them; the string of an
\* empty dictionary counts as empty
EmptyMetadata ==
    /\ probe.status_code = "" /\ probe.content_type = "" /\ probe.remote_body = <<>>
    /\ probe.remote_headers \in {"", "{}"}

\* C21: test_protocol never raises: whatever the page load and the requests do, it
\* returns a result; the result of a failed page load has works False and no title,
\* the result of a failed fetch has empty metadata entries.
C21_ProbeReturnsDegradedOutcome ==
    /\ ~ProbeAt("raised")
    /\ Returned =>
           /\ LoadFailed => ~probe.works /\ probe.title = <<>>
           /\ FetchFailed => EmptyMetadata

Request(k) == <<probe.sent[k][1], probe.sent[k][2]>>
Answer(k) == probe.sent[k][3]

\* C26: a probe sends a fast GET first; it sends a HEAD only as its second request and
\* only after the fast GET timed out, and a GET with the full timeout only as its third
\* request and only after the HEAD was answered; there is no fourth request.  A fast
\* GET that failed otherwise is the only request of the probe, a fast GET that timed
\* out is followed by the HEAD, and a HEAD answered with 200 by the full GET.
C26_FetchEscalation ==
    probe # <<>> =>
        /\ Len(probe.sent) <= 3
        /\ Len(probe.sent) >= 1 => Request(1) = <<"GET", "initial_timeout">>
        /\ Len(probe.sent) >= 2 => Request(2) = <<"HEAD", "timeout">> /\ Answer(1) = "Timeout"
        /\ Len(probe.sent) >= 3 => Request(3) = <<"GET", "timeout">> /\ Answer(2) \in Responses
        /\ Returned =>
               /\ Len(probe.sent) >= 1
               /\ Answer(1) # "Timeout" => Len(probe.sent) = 1
               /\ Answer(1) = "Timeout" => Len(probe.sent) >= 2
               /\ Len(probe.sent) >= 2 /\ Answer(2) = "200" => Len(probe.sent) = 3
               /\ Len(probe.sent) >= 2 /\ Answer(2) \notin Responses => Len(probe.sent) = 2

\* a probe that went through all three requests and returned the fetched page
C26_Witness ==
    /\ Returned
    /\ Len(probe.sent) = 3
    /\ Answer(1) = "Timeout" /\ Answer(2) = "200" /\ Answer(3) = "200"
    /\ probe.status_code = "200"

\* ---- the set-up of the driver ----
\* the call of process_host for task i ended in setup_driver: it raised before a probe
SetupFailed(i) == pc[i] = "raised" /\ https_res[i] = "none"

\* C22: once setup_driver has failed for a host, no later host of the work list is
\* attempted.  Without jitter a task fails in the step in which it is taken from the
\* queue, so every later task that is not waiting was started after the failure.
C22_SetupFailureStopsRun ==
    \A i \in Tasks :
        (SetupFailed(i) /\ args.jitter = 0) =>
            \A j \in Tasks : j > i => pc[j] \in Waiting

\* ---- the work list ----
IsHost(l) == l # Blank /\ l # Comment
FirstIndex(f, x) == CHOOSE k \in 1..Len(f) : f[k] = x /\ \A j \in 1..(k - 1) : f[j] # x
\* the run has computed its work list
WorkListComputed == main_pc # "init"

\* C23: the work list holds exactly the hosts of the input file (lines that are neither
\* blank nor comments) that are not in the loaded completed set, each once, in the
\* order of their first lines in the file.
C23_WorkList ==
    WorkListComputed =>
        /\ Range(hosts_to_process) = {l \in Range(ip_file) : IsHost(l)} \ start.skip
        /\ \A a, b \in 1..Len(hosts_to_process) :
               a < b => /\ hosts_to_process[a] # hosts_to_process[b]
                        /\ FirstIndex(ip_file, hosts_to_process[a])
                               < FirstIndex(ip_file, hosts_to_process[b])

\* ---- the pool and the sequential loop ----
\* C24: the hosts being processed at the same time are never more than --concurrent
\* nor than the hosts of the work list; when the smaller of the two is 1 the main
\* thread runs the sequential loop, and a host is started only when every host before
\* it in the work list has ended.
C24_BoundedConcurrency ==
    /\ Cardinality(Active) <= Min(args.concurrent, Len(hosts_to_process))
    /\ (Tasks # {} /\ Min(args.concurrent, Len(hosts_to_process)) = 1) =>
           /\ main_pc = "seq"
           /\ \A i, j \in Tasks : (i < j /\ pc[j] \notin Waiting) => pc[i] \in Ended

\* both workers are busy and a third host waits in the queue
C24_Witness ==
    /\ args.concurrent = 2
    /\ Cardinality(Active) = 2
    /\ \E i \in Tasks : pc[i] = "queued"

\* ---- the rows of a record ----
RowsAppended == Len(arguments) = 1 /\ result # <<>>
Record == arguments[1]
\* the response time a reader gets from the row of format k
TimeRead(k) == IF k = 1 THEN result[k].response_time ELSE float(result[k].response_time)

\* the three entries of the row of format k are those of the record
SameEntries(k) ==
    /\ result[k].written
    /\ result[k].host = Record.ip_host
    /\ result[k].bms_type = Record.bms_type
    /\ TimeRead(k) = Record.response_time

\* C25: after the appends of a record each of the four files has a row for it with the
\* record's host, classification and response time, whatever --store-headers and
\* --store-minimal-json are.
C25_RowEquivalence == RowsAppended => \A k \in 1..4 : SameEntries(k)

\* The same for the records whose XML entry can be built.
C25_RowEquivalenceOfWrittenRows ==
    (RowsAppended /\ ~append_xml_entry_raises(Record)) => \A k \in 1..4 : SameEntries(k)

\* a record with response time 0.0 and without optional entries in the JSON file
C25_Witness ==
    /\ RowsAppended
    /\ Record.response_time = 0 /\ Record.store_minimal_json
    /\ Record.https_content_type # "" /\ result[4].content_type = ""
    /\ result[2].written

\* ---- the order of the two probes ----
Probed(res, i) == res[i] # "none"

\* C27 as stated: the HTTP probe of a host comes first: the HTTPS probe has an outcome
\* only when the HTTP probe has one.
C27_HttpThenHttps ==
    \A i \in Tasks : Probed(https_res, i) => Probed(http_res, i)

\* C27: the HTTPS probe of a host comes first and the HTTP probe starts after it has
\* returned: a task is at its HTTP probe, or has its outcome, only with the outcome of
\* the HTTPS probe.
C27_HttpsThenHttp ==
    \A i \in Tasks :
        (pc[i] = "http" \/ Probed(http_res, i)) => Probed(https_res, i)

\* a task between its two probes
C27_Witness ==
    \E i \in Tasks : pc[i] = "http" /\ https_res[i] = "probed" /\ ~Probed(http_res, i)

\* ---- the response time of the record ----
\* C28: the response time of the record is the smaller of the two outcomes' times,
\* whichever of the two pages loaded.
C28_ResponseTimeIsMinimum ==
    (Len(arguments) = 2 /\ result # <<>>) =>
        result[1] = Min(arguments[1].response_time, arguments[2].response_time)

\* ---- the candidates of the vendor keywords ----
Scored == arguments # <<>> /\ Len(result) = 3
Candidates == result[1]
TitleText == lower(arguments[1])
BodyText == lower(arguments[2])
HeadersText == lower(str_headers(arguments[3]))

\* the vendor keywords: <<k, j>> is keyword j of system k of the table
VendorKeywords ==
    UNION {{<<k, j>> : j \in 1..Len(BMS_SIGNATURES_SCORED[k].keywords)} :
              k \in 1..Len(BMS_SIGNATURES_SCORED)}
System(e) == BMS_SIGNATURES_SCORED[e[1]].system_name
Keyword(e) == lower(BMS_SIGNATURES_SCORED[e[1]].keywords[e[2]][1])
BaseScore(e) == BMS_SIGNATURES_SCORED[e[1]].keywords[e[2]][2]
InTitle(e) == contains(TitleText, Keyword(e))
InBody(e) == contains(BodyText, Keyword(e))
InHeaders(e) == contains(HeadersText, Keyword(e))
Hit(e) == InTitle(e) \/ InBody(e) \/ InHeaders(e)
\* the keywords of the same system that the table lists before e
Earlier(e) == {<<e[1], j>> : j \in 1..(e[2] - 1)}

Contributes(e) ==
    \/ InTitle(e)
    \/ InBody(e)
    \/ InHeaders(e) /\ \A f \in Earlier(e) : ~Hit(f)
Contribution(e) ==
    <<System(e),
      IF InTitle(e) THEN BaseScore(e) + 1
      ELSE IF InBody(e) THEN BaseScore(e)
      ELSE Max(1, BaseScore(e) - 1)>>

HitScores(name) ==
    UNION {(IF InTitle(e) THEN {BaseScore(e) + 1} ELSE {})
           \cup (IF InBody(e) THEN {BaseScore(e)} ELSE {})
           \cup (IF InHeaders(e) THEN {Max(1, BaseScore(e) - 1)} ELSE {}) :
              e \in {f \in VendorKeywords : System(f) = name}}
Largest(scores) == CHOOSE s \in scores : \A t \in scores : s >= t
\* the score of a name: the largest score of its candidates
ScoreOf(name) == Largest({m[2] : m \in {n \in Candidates : n[1] = name}})

\* C30: the score of a system name is the largest adjusted score of all hits of its
\* keywords in title, body and headers, whatever their order in the table; the names
\* that reach the largest score of all names are the top candidates.
C30_ScoreIsLargestOverAllHits ==
    Scored =>
        /\ \A name \in system_names :
               HitScores(name) # {} =>
                   /\ \E m \in Candidates : m[1] = name
                   /\ ScoreOf(name) = Largest(HitScores(name))
        /\ result[2] = {m[1] : m \in {n \in Candidates : \A o \in Candidates : n[2] >= o[2]}}

\* the label of the call, and the names whose best candidate has the best score
Label == result[3]
BestNames == {m[1] : m \in {n \in Candidates : \A o \in Candidates : n[2] >= o[2]}}

\* C39: when the call collected at least one candidate, its label is the name of a
\* candidate with the best score: not "Unknown", and not a name all of whose
\* candidates score less.
C39_LabelIsABestCandidate ==
    (Scored /\ Candidates # {}) => (Label # Unknown /\ Label \in BestNames)

\* a call in which no vendor's system name has the best score and two other names
\* share it: the label comes from one of the later tiers
C39_Witness ==
    /\ Scored
    /\ BestNames \cap system_names = {}
    /\ Cardinality(BestNames) > 1
    /\ Label \in BestNames

\* process_host has returned for task i, with the record or with an error
HostReturned(i) == pc[i] \in {"ok", "error"}

\* C35: while no shutdown was signalled, the record of every host for which
\* process_host has returned is in all four output files or in none of them, for
\* every value of --store-headers and whichever append failed.
C35_RecordInAllFilesOrNone ==
    running =>
        \A i \in Tasks :
            HostReturned(i) => (InAll(hosts_to_process[i]) \/ InNone(hosts_to_process[i]))

\* ---- the locks ----
\* the positions under each lock, and the shared object they read and write
UnderLock(l) ==
    {Under[w] : w \in {v \in DOMAIN LockOf : LockOf[v] = l}}
        \cup (IF l = "csv_lock" THEN {"init_csv", "csv_write"} ELSE {})
Holds(i, l) == pc[i] \in UnderLock(l)
\* the workbook file is read under the lock of init_excel and written under the lock
\* of append_excel_row: between the two the task works on its copy
InReadModifyWrite(i, l) ==
    \/ Holds(i, l)
    \/ l = "excel_lock" /\ pc[i] = "excel"
\* task i waits at a with-statement for a lock that is taken
Blocked(i) == pc[i] \in DOMAIN LockOf /\ lock[LockOf[pc[i]]] # Free

\* a task is under a lock exactly when the lock is its own, so no two tasks are
\* under the same lock
LockedSectionsExclusive ==
    \A l \in Locks : \A i \in Tasks : Holds(i, l) <=> lock[l] = i
\* a task that waits for the lock of one file waits for a task that is under that
\* lock, never for one that works on another file
LocksIndependent ==
    \A i \in Tasks :
        Blocked(i) => LET j == lock[LockOf[pc[i]]]
                      IN  j \in Tasks /\ Holds(j, LockOf[pc[i]])
\* a worker changes a shared file or the processed set only under its lock
MutationUnderLock ==
    /\ (xlsx' # xlsx \/ backups' # backups) => lock["excel_lock"] # Free
    /\ xml' # xml => lock["xml_lock"] # Free
    /\ (csv' # csv \/ (csv_file' # csv_file /\ main_pc # "init")) => lock["csv_lock"] # Free
    /\ json' # json => lock["json_lock"] # Free
    /\ progress' # progress => lock["processed_lock"] # Free
    /\ (processed_ips' # processed_ips /\ main_pc' = main_pc) => lock["processed_lock"] # Free

\* C31 as stated: for each of the five files and the processed set no two workers
\* are at the same time inside its read-modify-write section, and a worker waits
\* only for a worker on the same file.
C31_ReadModifyWriteExclusive ==
    /\ \A l \in Locks : \A i, j \in Tasks :
           (InReadModifyWrite(i, l) /\ InReadModifyWrite(j, l)) => i = j
    /\ LocksIndependent

\* C31, what the locks give: the statements under one lock are run by one worker at
\* a time, a worker waits only for a worker under the same lock, and every change of
\* a shared file or of the processed set by a worker is made under its lock.
C31_LockedSectionsExclusive ==
    /\ [](LockedSectionsExclusive /\ LocksIndependent)
    /\ [][MutationUnderLock]_vars

\* one worker is under the XML lock while another is under the CSV lock, and a third
\* party is not needed: both are writing
C31_Witness ==
    \E i, j \in Tasks :
        /\ i # j
        /\ pc[i] = "xml_locked" /\ lock["xml_lock"] = i
        /\ pc[j] = "csv_write" /\ lock["csv_lock"] = j

\* C34: no worker waits for a lock while it holds one, the same or another, so every
\* wait for a file lock ends when the holder leaves its with-block, also when the
\* file is missing or empty at the time of the append.
C34_NoWaitWhileHolding ==
    \A i \in Tasks :
        pc[i] \in DOMAIN LockOf => \A l \in Locks : lock[l] # i

\* main returns: the pool is joined or the sequential loop is left
Returns == main_pc' = "ended" /\ main_pc # "ended"
\* process_host was called for the host and returned a record or an error
Attempted(i) == pc[i] \in {"ok", "error"}
\* the exception of a driver that could not be started left process_host
FatalSetupFailure == \E i \in Tasks : pc[i] = "raised"

\* C33: a run without a shutdown signal returns, and when it returns without a fatal
\* setup failure process_host has returned for every host of the work list.
C33_RunReturnsWithEveryHostAttempted ==
    /\ <>(main_pc = "ended" \/ ~running)
    /\ [][(Returns /\ running' /\ ~FatalSetupFailure) => \A i \in Tasks : Attempted(i)]_vars

\* ---- the CSV file ----
HeaderLines == {k \in 1..Len(csv_file.lines) : csv_file.lines[k] = Header}
IsPrefix(s, t) == Len(s) <= Len(t) /\ SubSeq(t, 1, Len(s)) = s

\* C32: a CSV file that holds a line holds the header exactly once, as its first
\* line, after any sequence of init_csv and append_csv_row calls.
C32_HeaderOnceAsFirstLine ==
    csv_file.lines # <<>> => HeaderLines = {1}

\* C32 for webscreengrabGemini.py: the same, and no call changes or removes a line
\* the file holds.
C32_HeaderFirstAndAppendOnly ==
    /\ [](script = Gemini => C32_HeaderOnceAsFirstLine)
    /\ [][script = Gemini => IsPrefix(csv_file.lines, csv_file'.lines)]_vars

\* the file of webscreengrabGemini.py after the header and three rows were written,
\* init_csv having failed once before
C32_Witness ==
    /\ script = Gemini
    /\ Len(csv_file.lines) = MaxCsvLines
    /\ HeaderLines = {1}
    /\ faults > 0

\* C36: over a run that was interrupted and the resumed runs after it, on the same
\* output directory and progress file, no output file holds more than one record of
\* a host, wherever the run was interrupted (no I/O call failed).
C36_NoSecondRecordAfterResume ==
    faults = 0 =>
        \A h \in Hosts : \A k \in 1..4 : RowCount(OutputFiles[k], h) <= 1

\* ---- hosts that were not completed ----
\* the run has added the host of task i to the processed set or to the progress file
AddedByRun(i) ==
    \/ hosts_to_process[i] \in processed_ips
    \/ Copies(progress, hosts_to_process[i]) > Copies(start.progress, hosts_to_process[i])
\* a run is under way
Running == main_pc \in {"submit", "poll", "join", "seq"}

LiveDrivers == {i \in TaskIds : chrome[i] \in Live}

\* C38: no more browsers run than there are workers; a browser runs only while the
\* call of process_host that started it is under way; none runs when the run has
\* returned.
C38_NoDriverLeaks ==
    /\ Cardinality(LiveDrivers) <= num_workers \/ main_pc = "ended"
    /\ \A i \in LiveDrivers : i \in Active
    /\ main_pc = "ended" => LiveDrivers = {}
====
